---- MODULE Spec2Model ----
(***************************************************************************)
(* Model of src/Proyecto/JS/tema.js: module 7 (Calculator), module 3       *)
(* (DynamicList), module 4 (ImageCarousel), module 5 (InteractiveGallery)  *)
(* and the two theme controllers, SistemaTema and ThemeManager (module 6). *)
(*                                                                         *)
(* JavaScript strings are sequences of one-character strings.  JavaScript  *)
(* numbers are decimal values [nan, neg, m, e] standing for                *)
(* (-1)^neg * m / 10^e, where m is a sequence of decimal digits (most      *)
(* significant first, <<>> for zero), so the arithmetic is exact decimal   *)
(* arithmetic of unbounded size.  A double differs from the decimal value  *)
(* it stands for by a relative error below 10^-15; toFixed(10) reads that  *)
(* error only when the decimal value is that close to a rounding tie, and  *)
(* there the model computes the binary64 values themselves (RoundDouble).  *)
(* toString gives back the decimal text of a value of at most 15           *)
(* significant digits, which every value within the bounds of the model    *)
(* is.                                                                     *)
(***************************************************************************)
EXTENDS Integers, Sequences, FiniteSets, TLC

\* ---------------------------------------------------------------- bounds
\* Number of calculator operations (key presses) in a run.
MaxSteps == 5

\* Fractional digits kept for a quotient before toFixed rounds it (a double
\* keeps about 16 significant digits; ten are read by toFixed(10)).
QuotientDigits == 20

\* Number of calls of the methods of DynamicList in a run.
MaxCalls == 3

\* Items the list can hold when addItem is called.
MaxItems == 2

\* Slides of the page when ImageCarousel.init() runs.
MaxSlides == 2

\* Events of the carousel, and of the gallery, in a run.
MaxEvents == 5

\* Items of the page when InteractiveGallery.init() runs, and items added.
MaxPictures == 2

\* --------------------------------------------------- program constants
\* computation.toFixed(10)
FixedDigits == 10

\* 'Error: Div/0'
DivError == <<"E", "r", "r", "o", "r", ":", " ", "D", "i", "v", "/", "0">>

\* null
Null == "null"

\* Keys the listeners deliver: digits (a subset keeps the model finite and
\* small), the decimal point, and the four keyboard operators.
Digits == {"0", "1", "2", "3"}
Point == "."
Numbers == Digits \cup {Point}
Operations == {"+", "-", "*", "/"}

\* Operands typed in a chained calculation, as the keys pressed.
Operands ==
    {<<"0">>, <<"1">>, <<"2">>, <<"3">>, <<Point>>, <<"1", "2">>,
     <<Point, "3">>, <<"2", Point>>}

\* ------------------------------------------------ digits and naturals
\* Each value that is used more than once is handed on as the argument of
\* an operator, so that it is computed once; an operator tests its arguments
\* first, so that they are computed before the work on them starts.

DigitChars == <<"0", "1", "2", "3", "4", "5", "6", "7", "8", "9">>

IsDigitChar(c) == \E d \in 1..10 : DigitChars[d] = c

CharDigit(c) == (CHOOSE d \in 1..10 : DigitChars[d] = c) - 1

DigitChar(d) == DigitChars[d + 1]

Zeros(n) == [i \in 1..n |-> 0]

Max(a, b) == IF a >= b THEN a ELSE b

\* d without its leading zeros
Strip(d) ==
    IF \A i \in 1..Len(d) : d[i] = 0 THEN <<>>
    ELSE SubSeq(d, CHOOSE i \in 1..Len(d) :
                       d[i] # 0 /\ \A j \in 1..(i - 1) : d[j] = 0, Len(d))

PadTo(a, n) == Zeros(n - Len(a)) \o a

Front(s) == SubSeq(s, 1, Len(s) - 1)

\* the first place where the digits a and b of equal length differ
FirstDifference(a, b) ==
    CHOOSE k \in 1..Len(a) : a[k] # b[k] /\ \A j \in 1..(k - 1) : a[j] = b[j]

NatCmp(a, b) ==
    IF Len(a) # Len(b) THEN (IF Len(a) < Len(b) THEN -1 ELSE 1)
    ELSE IF a = b THEN 0
    ELSE IF a[FirstDifference(a, b)] < b[FirstDifference(a, b)] THEN -1 ELSE 1

\* Sums, differences and products work on groups of four digits, with the
\* carry between groups looked up rather than handed on; quotients work on
\* the digits by halves.  Both keep the evaluation shallow.

\* groups of four digits that hold the digits d
Groups(d) == (Len(d) + 3) \div 4

\* the value of the k-th group of four of the digits p
GroupVal(p, k) ==
    p[4 * k - 3] * 1000 + p[4 * k - 2] * 100 + p[4 * k - 1] * 10 + p[4 * k]

\* the values of the groups of four that hold the digits p, a multiple of
\* four of them
GroupsOf(p) == <<>> \o [k \in 1..(Len(p) \div 4) |-> GroupVal(p, k)]

\* the values of the m groups of four that hold the digits d
GroupVals(d, m) == GroupsOf(PadTo(d, 4 * m))

\* the four digits of the group value v
GroupDigits(v) == <<v \div 1000, (v \div 100) % 10, (v \div 10) % 10, v % 10>>

\* the digits of the group values g, each below 10000
Ungroup(g) ==
    Strip(<<>> \o [i \in 1..(4 * Len(g)) |->
                     GroupDigits(g[(i + 3) \div 4])[i - 4 * ((i - 1) \div 4)]])

\* a carry reaches group k of the group sums s: the nearest group after k
\* that is not 9999 is 10000 or more
Carry(s, k) ==
    \E j \in (k + 1)..Len(s) :
        s[j] >= 10000 /\ \A i \in (k + 1)..(j - 1) : s[i] = 9999

\* the digits of the group sums s, each below 20000
Carried(s) ==
    Ungroup(<<>> \o [k \in 1..(Len(s) + 1) |->
                       ((IF k = 1 THEN 0 ELSE s[k - 1])
                          + (IF Carry(s, k - 1) THEN 1 ELSE 0)) % 10000])

\* the sums of the group values x and y, group by group
GroupSums(x, y) == <<>> \o [k \in 1..Len(x) |-> x[k] + y[k]]

NatAdd(a, b) ==
    IF a = <<>> THEN b
    ELSE IF b = <<>> THEN a
    ELSE Carried(GroupSums(GroupVals(a, Max(Groups(a), Groups(b))),
                           GroupVals(b, Max(Groups(a), Groups(b)))))

\* group k of x - y borrows: the nearest group after k where x and y differ
\* is smaller in x
Borrow(x, y, k) ==
    \E j \in (k + 1)..Len(x) :
        x[j] < y[j] /\ \A i \in (k + 1)..(j - 1) : x[i] = y[i]

\* the differences of the group values x and y, group by group
GroupDifferences(x, y) ==
    <<>> \o [k \in 1..Len(x) |->
               (10000 + x[k] - y[k] - (IF Borrow(x, y, k) THEN 1 ELSE 0)) % 10000]

\* a - b for a >= b
NatSub(a, b) ==
    IF a = b THEN <<>>
    ELSE Ungroup(GroupDifferences(GroupVals(a, Groups(a)), GroupVals(b, Groups(a))))

RECURSIVE SumOver(_, _, _)
\* f[i] + ... + f[j]
SumOver(f, i, j) ==
    IF i > j THEN 0
    ELSE IF i = j THEN f[i]
    ELSE SumOver(f, i, (i + j) \div 2) + SumOver(f, (i + j) \div 2 + 1, j)

\* the products of the group values x and y, summed column by column
Columns(x, y) ==
    <<>> \o [k \in 1..(Len(x) + Len(y) - 1) |->
               SumOver([i \in 1..Len(x) |->
                           IF k + 1 - i \in 1..Len(y) THEN x[i] * y[k + 1 - i] ELSE 0],
                       Max(1, k + 1 - Len(y)), IF k < Len(x) THEN k ELSE Len(x))]

\* the group values (c[k] \div p) % 10000 of the column sums c
Part(c, p) == <<>> \o [k \in 1..Len(c) |-> (c[k] \div p) % 10000]

\* the number the column sums c stand for, each sum taken apart into three
\* group values
ColumnSum(c) ==
    IF c = <<>> THEN <<>>
    ELSE NatAdd(NatAdd(Ungroup(Part(c, 1)), Ungroup(Part(c, 10000) \o <<0>>)),
                Ungroup(Part(c, 100000000) \o <<0, 0>>))

\* a * b for at most 20 groups
NatMul(a, b) ==
    IF a = <<>> \/ b = <<>> THEN <<>>
    ELSE ColumnSum(Columns(GroupVals(a, Groups(a)), GroupVals(b, Groups(b))))

\* 0 * b, 1 * b, ..., 9 * b
Multiples(b) == <<>> \o [q \in 1..10 |-> NatMul(b, <<q - 1>>)]

\* one step of the long division: the digit q of the quotient of part by
\* the number whose multiples are mult, and the remainder
DivStep(mult, part, q) == <<<<q>>, NatSub(part, mult[q + 1])>>

DivDigit(mult, part) ==
    DivStep(mult, part, CHOOSE d \in 0..9 :
                            /\ NatCmp(mult[d + 1], part) <= 0
                            /\ d = 9 \/ NatCmp(mult[d + 2], part) > 0)

\* the quotients high and low of two runs of digits, as one
DivJoin(high, low) == <<high[1] \o low[1], low[2]>>

RECURSIVE DivC(_, _, _, _, _)
RECURSIVE DivLow(_, _, _, _, _)
\* long division over the digits i..j of a by the number whose multiples
\* are mult, r the remainder of the digits before them:
\* <<digits of the quotient, remainder>>
DivC(a, mult, i, j, r) ==
    IF i = j THEN DivDigit(mult, Strip(Append(r, a[i])))
    ELSE DivLow(a, mult, (i + j) \div 2, j, DivC(a, mult, i, (i + j) \div 2, r))

\* the division over the digits after mid, high the result up to mid
DivLow(a, mult, mid, j, high) ==
    DivJoin(high, DivC(a, mult, mid + 1, j, high[2]))

\* the quotient of a by the number whose multiples are mult
Quotients(a, mult) ==
    IF NatCmp(a, mult[2]) < 0 THEN <<>>
    ELSE Strip(DivC(a, mult, 1, Len(a), <<>>)[1])

\* floor(a / b) for b # 0
NatDiv(a, b) ==
    IF a = <<>> \/ b = <<>> THEN <<>>
    ELSE Quotients(a, Multiples(b))

\* ------------------------------------------------------------- numbers
NaN == [nan |-> TRUE, neg |-> FALSE, m |-> <<>>, e |-> 0]

Num(neg, m, e) == [nan |-> FALSE, neg |-> neg, m |-> Strip(m), e |-> e]

isNaN(x) == x.nan

\* x === 0 (true of -0 as well)
IsZero(x) == ~x.nan /\ x.m = <<>>

\* the digits of x written with e fractional digits (e >= x.e)
Scaled(x, e) == Strip(x.m \o Zeros(e - x.e))

\* the sum of a and b, each with its sign, both with e fractional digits
SignedSum(xneg, a, yneg, b, e) ==
    IF xneg = yneg THEN Num(xneg, NatAdd(a, b), e)
    ELSE IF NatCmp(a, b) >= 0 THEN Num(xneg, NatSub(a, b), e)
    ELSE Num(yneg, NatSub(b, a), e)

\* prev + current
NumAdd(x, y) ==
    SignedSum(x.neg, Scaled(x, Max(x.e, y.e)), y.neg, Scaled(y, Max(x.e, y.e)),
              Max(x.e, y.e))

\* prev - current
NumSub(x, y) == NumAdd(x, [y EXCEPT !.neg = ~y.neg])

\* prev * current
NumMul(x, y) == Num(x.neg # y.neg, NatMul(x.m, y.m), x.e + y.e)

\* prev / current for current # 0, cut after QuotientDigits fractional digits
NumDiv(x, y) ==
    Num(x.neg # y.neg,
        NatDiv(x.m \o Zeros(y.e + QuotientDigits), Strip(y.m \o Zeros(x.e))),
        QuotientDigits)

\* ------------------------------------------------------------ binary64
\* bits of the significand of a double
MantissaBits == 53

\* decimal digits a double always keeps
DoubleDigits == 15

\* the digits of a natural number below 2^31
NatDigits(n) == Strip(<<>> \o [i \in 1..10 |-> (n \div 10 ^ (10 - i)) % 10])

RECURSIVE TwoTo(_)
TwoTo(n) ==
    IF n <= 30 THEN NatDigits(2 ^ n)
    ELSE NatMul(TwoTo(n \div 2), TwoTo(n - n \div 2))

TenTo(n) == <<1>> \o Zeros(n)

\* a * 2^k
Shift(a, k) == IF k = 0 THEN a ELSE NatMul(a, TwoTo(k))

\* the exact value (-1)^neg * n / d of a decimal number
RatOf(x) == [neg |-> x.neg, n |-> x.m, d |-> TenTo(x.e)]

\* low <= a < 2 * low
Between(a, low) == NatCmp(a, low) >= 0 /\ NatCmp(a, NatAdd(low, low)) < 0

\* 2^52 <= a / b < 2^53
InBinade(a, b) == Between(a, Shift(b, MantissaBits - 1))

\* 2^53 <= |r|
Big(r) == NatCmp(r.n, Shift(r.d, MantissaBits)) >= 0

\* the exponent k of the last bit of the significand of |r|: 2^k for a big
\* r, 2^-k otherwise
Exponent(r, big) ==
    CHOOSE k \in (IF big THEN 1 ELSE 0)..1074 :
        InBinade(Shift(r.n, IF big THEN 0 ELSE k), Shift(r.d, IF big THEN k ELSE 0))

\* the floor q of a / b, or q + 1: the integer nearest to a / b, the even
\* one of two; half compares twice the rest a - q * b with b
Nearest(q, half) ==
    IF (q[Len(q)] % 2 = 1 /\ half = 0) \/ half > 0 THEN NatAdd(q, <<1>>) ELSE q

Twice(n) == NatAdd(n, n)

NearestTo(a, b, q) == Nearest(q, NatCmp(Twice(NatSub(a, NatMul(q, b))), b))

\* the integer nearest to a / b, the even one of two
Quotient(a, b) == NearestTo(a, b, NatDiv(a, b))

\* the double of sign neg and significand sig, its last bit worth 2^k for
\* a big value and 2^-k otherwise
Double(neg, big, k, sig) ==
    [neg |-> neg,
     n |-> Shift(sig, IF big THEN k ELSE 0),
     d |-> Shift(<<1>>, IF big THEN 0 ELSE k)]

RoundTo(r, big, k) ==
    Double(r.neg, big, k,
           Quotient(Shift(r.n, IF big THEN 0 ELSE k), Shift(r.d, IF big THEN k ELSE 0)))

RoundIn(r, big) == RoundTo(r, big, Exponent(r, big))

\* the double nearest to r, ties to even (normal range: the exponent of the
\* last bit of the significand lies in -1074..971)
RoundDouble(r) == IF r.n = <<>> THEN r ELSE RoundIn(r, Big(r))

\* a number and its sign as an exact value over d
Over(s, d) == [neg |-> s.neg, n |-> s.m, d |-> d]

\* x + y, exactly
RatAdd(x, y) ==
    Over(SignedSum(x.neg, NatMul(x.n, y.d), y.neg, NatMul(y.n, x.d), 0),
         NatMul(x.d, y.d))

\* x op y, exactly (y # 0 for a division)
RatOp(op, x, y) ==
    CASE op \in {"+", "-"} -> RatAdd(x, IF op = "-" THEN [y EXCEPT !.neg = ~y.neg] ELSE y)
      [] op \in {"*", "×"} ->
            [neg |-> x.neg # y.neg, n |-> NatMul(x.n, y.n), d |-> NatMul(x.d, y.d)]
      [] op \in {"/", "÷"} ->
            [neg |-> x.neg # y.neg, n |-> NatMul(x.n, y.d), d |-> NatMul(x.d, y.n)]

\* prev op current on doubles: the exact result, rounded to a double
DoubleOp(op, x, y) == RoundDouble(RatOp(op, x, y))

\* ---------------------------------------------- numbers and their text
\* the longest run of decimal digits of s that starts at position i
DigitRun(s, i) ==
    <<>> \o [k \in 1..(CHOOSE n \in 0..(Len(s) + 1 - i) :
                          /\ \A j \in i..(i + n - 1) : IsDigitChar(s[j])
                          /\ i + n > Len(s) \/ ~IsDigitChar(s[i + n]))
               |-> CharDigit(s[i + k - 1])]

RECURSIVE NatVal(_)
\* the value of a short run of digits
NatVal(d) == IF d = <<>> THEN 0 ELSE NatVal(Front(d)) * 10 + d[Len(d)]

\* the number of sign neg written with the digits int, the digits frac
\* after the point and the exponent frac's length less down
Parsed(neg, int, frac, down) ==
    IF int = <<>> /\ frac = <<>> THEN NaN
    ELSE IF down >= 0 THEN Num(neg, int \o frac, down)
    ELSE Num(neg, int \o frac \o Zeros(0 - down), 0)

\* there is a sign at position i of s
SignAt(s, i) == i <= Len(s) /\ s[i] \in {"-", "+"}

\* the exponent written at position mark of s: an e and digits, with or
\* without a sign; 0 where none is written
ExponentAt(s, mark) ==
    IF mark <= Len(s) /\ s[mark] \in {"e", "E"}
    THEN (IF SignAt(s, mark + 1) /\ s[mark + 1] = "-" THEN -1 ELSE 1)
           * NatVal(DigitRun(s, IF SignAt(s, mark + 1) THEN mark + 2 ELSE mark + 1))
    ELSE 0

\* there is a point at position dot of s
PointAt(s, dot) == dot <= Len(s) /\ s[dot] = Point

\* s read after its digits int, which end before position dot, and the
\* digits frac after the point
ParseExponent(s, neg, int, dot, frac) ==
    Parsed(neg, int, frac,
           Len(frac) - ExponentAt(s, IF PointAt(s, dot) THEN dot + 1 + Len(frac) ELSE dot))

\* s read after its digits int, which start at position start
ParseFraction(s, neg, start, int) ==
    ParseExponent(s, neg, int, start + Len(int),
                  IF PointAt(s, start + Len(int))
                  THEN DigitRun(s, start + Len(int) + 1) ELSE <<>>)

\* parseFloat(s): an optional sign, digits, an optional point and digits, an
\* optional exponent; at least one digit is needed before the exponent, an
\* exponent without digits is not read, and what follows the number is
\* ignored.  (No text the calculator holds starts with white space.)
parseFloat(s) ==
    IF s = <<>> THEN NaN
    ELSE ParseFraction(s, SignAt(s, 1) /\ s[1] = "-", IF SignAt(s, 1) THEN 2 ELSE 1,
                       DigitRun(s, IF SignAt(s, 1) THEN 2 ELSE 1))

DigitText(d) == [i \in 1..Len(d) |-> DigitChar(d[i])]

\* the text of the digits d, the last e of them after the point
Pointed(d, e) ==
    DigitText(SubSeq(d, 1, Len(d) - e))
      \o (IF e = 0 THEN <<>>
          ELSE <<Point>> \o DigitText(SubSeq(d, Len(d) - e + 1, Len(d))))

\* the text of the digits m read with e fractional digits
Positional(m, e) == IF Len(m) > e THEN Pointed(m, e) ELSE Pointed(PadTo(m, e + 1), e)

\* the number of zeros the digits m end with
TrailingZeros(m) ==
    CHOOSE z \in 0..Len(m) :
        /\ \A i \in (Len(m) - z + 1)..Len(m) : m[i] = 0
        /\ z = Len(m) \/ m[Len(m) - z] # 0

\* x without the last cut digits of its fraction
Cut(x, cut) == [x EXCEPT !.m = SubSeq(x.m, 1, Len(x.m) - cut), !.e = x.e - cut]

\* x without the trailing zeros of its fraction
Shortest(x) ==
    Cut(x, IF x.m # <<>> /\ TrailingZeros(x.m) < x.e THEN TrailingZeros(x.m) ELSE x.e)

\* the digits m without trailing zeros
Significant(m) == SubSeq(m, 1, Len(m) - TrailingZeros(m))

\* the digits d as d.ddd
Mantissa(d) ==
    <<DigitChar(d[1])>> \o (IF Len(d) = 1 THEN <<>> ELSE <<Point>> \o DigitText(Tail(d)))

\* the digits m as d.ddde+x or d.ddde-x, for the decimal exponent n - 1
Exponential(m, n) ==
    Mantissa(Significant(m))
      \o <<"e", IF n >= 1 THEN "+" ELSE "-">>
      \o DigitText(NatDigits(IF n >= 1 THEN n - 1 ELSE 1 - n))

\* the text of s, a number without trailing zeros in its fraction
Written(s) ==
    (IF s.neg /\ s.m # <<>> THEN <<"-">> ELSE <<>>)
      \o (IF s.m = <<>> \/ (Len(s.m) - s.e > -6 /\ Len(s.m) - s.e <= 21)
          THEN Positional(s.m, s.e)
          ELSE Exponential(s.m, Len(s.m) - s.e))

\* x.toString(): "NaN", positional notation for zero and for
\* 10^-6 <= |x| < 10^21, exponential notation otherwise
NumToString(x) == IF isNaN(x) THEN <<"N", "a", "N">> ELSE Written(Shortest(x))

\* toFixed, had it cut the digits after the f-th instead of rounding
toFixedTruncated(x, f) ==
    LET m == IF x.e <= f THEN Scaled(x, f)
             ELSE LET d == PadTo(x.m, Max(Len(x.m), x.e + 1))
                  IN Strip(SubSeq(d, 1, Len(d) - (x.e - f)))
    IN (IF x.neg /\ x.m # <<>> THEN <<"-">> ELSE <<>>) \o Positional(m, f)

\* the first keep digits of d, rounded half up
RoundedAt(d, keep) ==
    IF d[keep + 1] >= 5 THEN NatAdd(Strip(SubSeq(d, 1, keep)), <<1>>)
    ELSE Strip(SubSeq(d, 1, keep))

\* the digits of x rounded half up to f fractional digits
RoundedTo(x, f) ==
    IF x.e <= f THEN Scaled(x, f)
    ELSE RoundedAt(PadTo(x.m, Max(Len(x.m), x.e + 1)),
                   Max(Len(x.m), x.e + 1) - (x.e - f))

\* x.toFixed(f) for |x| < 10^21: x rounded half up to f fractional digits,
\* all f written; the sign is kept even when the rounded value is zero.
toFixed(x, f) ==
    (IF x.neg /\ x.m # <<>> THEN <<"-">> ELSE <<>>) \o Positional(RoundedTo(x, f), f)

\* z.toFixed(f) for the exact value z: the integer n with n / 10^f nearest
\* to |z|, the larger one of two
RatToFixed(z, f) ==
    (IF z.neg /\ z.n # <<>> THEN <<"-">> ELSE <<>>)
      \o Positional(NatDiv(NatAdd(NatMul(Twice(z.n), TenTo(f)), z.d), Twice(z.d)), f)

\* digits of x before the point
IntDigits(x) == Max(0, Len(x.m) - x.e)

\* the i-th fractional digit of x
FracDigit(x, i) ==
    IF i > x.e \/ Len(x.m) - x.e + i < 1 THEN 0 ELSE x.m[Len(x.m) - x.e + i]

\* the digits of v after the f-th, up to the reach-th, are 50...0 or 49...9
TieWithin(v, f, reach) ==
    IF reach <= f THEN TRUE
    ELSE \/ /\ FracDigit(v, f + 1) = 5
            /\ \A i \in (f + 2)..reach : FracDigit(v, i) = 0
         \/ /\ FracDigit(v, f + 1) = 4
            /\ \A i \in (f + 2)..reach : FracDigit(v, i) = 9

\* the decimal value v of prev op current lies within the error of the
\* double of a tie of rounding to f fractional digits: the digits after the
\* f-th that a double keeps are 50...0 or 49...9
NearTie(v, prev, current, f) ==
    TieWithin(v, f, DoubleDigits
                      - Max(IntDigits(v), Max(IntDigits(prev), IntDigits(current))))

\* currentOperand.includes('.')
includes(s, c) == \E i \in 1..Len(s) : s[i] = c

\* ---------------------------------------------------- calculator state
VARIABLES
    currentOperand,     \* Calculator.currentOperand
    previousOperand,    \* Calculator.previousOperand
    operation,          \* Calculator.operation
    shouldResetScreen,  \* Calculator.shouldResetScreen
    last,               \* the operation run last, its argument, the fields before it
    steps,              \* operations run so far
    keys,               \* keydown events not yet delivered
    entered,            \* currentOperand at each operator or Enter key so far
    items,              \* DynamicList.items
    storage,            \* localStorage's value under 'dynamicListItems'
    container,          \* DynamicList.container is set
    children,           \* the cards in the container
    emptyHidden,        \* the empty-list message has the class hidden
    fault,              \* the exception that left the method called last
    returned,           \* what the method called last returned
    sets,               \* calls of localStorage.setItem by the method called last
    clock,              \* the milliseconds Date.now() gives
    call,               \* the method called last, its argument, the list before it
    calls,              \* methods of DynamicList called so far
    carousel,           \* ImageCarousel: its fields, classes and intervals
    hovering,           \* the pointer is over the carousel's container
    event,              \* the event of the carousel handled last, the carousel before it
    gallery,            \* InteractiveGallery: its fields, lightbox and added items
    galleryEvent,       \* the event of the gallery handled last, the gallery before it
    theme,              \* the theme of the page and the two controllers' isDarkMode
    themeEvent          \* the event of the theme handled last, the theme before it

calcVars == <<currentOperand, previousOperand, operation, shouldResetScreen>>

calcAll == <<currentOperand, previousOperand, operation, shouldResetScreen,
             last, steps, keys, entered>>

listVars == <<items, storage, container, children, emptyHidden, fault,
              returned, sets, clock, call, calls>>

widgetVars == <<carousel, hovering, event, gallery, galleryEvent, theme, themeEvent>>

vars == <<currentOperand, previousOperand, operation, shouldResetScreen,
          last, steps, keys, entered, items, storage, container, children,
          emptyHidden, fault, returned, sets, clock, call, calls,
          carousel, hovering, event, gallery, galleryEvent, theme, themeEvent>>

\* the four fields as one value
Fields(cur, prev, op, reset) ==
    [currentOperand |-> cur, previousOperand |-> prev,
     operation |-> op, shouldResetScreen |-> reset]

Now == Fields(currentOperand, previousOperand, operation, shouldResetScreen)

\* the object literal
Literal ==
    /\ currentOperand = <<"0">>
    /\ previousOperand = <<>>
    /\ operation = Null
    /\ shouldResetScreen = FALSE
    /\ last = [op |-> "init", arg |-> Null, pre |-> Fields(<<"0">>, <<>>, Null, FALSE)]
    /\ steps = 0
    /\ entered = <<>>

\* the DynamicList object with no page loaded and nothing stored
ListIdle ==
    /\ items = [type |-> "array", elements |-> <<>>]
    /\ storage = [type |-> "null"]
    /\ container = FALSE
    /\ children = <<>>
    /\ emptyHidden = FALSE
    /\ fault = "none"
    /\ returned = [type |-> "undefined"]
    /\ sets = 0
    /\ clock = 0
    /\ call = [name |-> "none", arg |-> [type |-> "undefined"], fails |-> FALSE,
               pre |-> [type |-> "undefined"]]
    /\ calls = 0

\* the ImageCarousel object literal, with no interval set
CarouselLiteral ==
    [currentIndex |-> 0, items |-> <<>>, interval |-> 0, isPlaying |-> TRUE,
     container |-> FALSE, indicatorsContainer |-> FALSE, indicators |-> <<>>,
     timers |-> {}, started |-> 0]

\* the carousel of a page that has not called init()
CarouselIdle ==
    /\ carousel = CarouselLiteral
    /\ hovering = FALSE
    /\ event = [name |-> "none", arg |-> 0, pre |-> CarouselLiteral, slides |-> 0,
                count |-> 0]

\* the InteractiveGallery object literal, with no lightbox and no item added
GalleryLiteral ==
    [images |-> <<>>, currentIndex |-> 0, container |-> FALSE, hidden |-> TRUE,
     shown |-> 0, listeners |-> 0, added |-> <<>>]

\* the gallery of a page that has not called init()
GalleryIdle ==
    /\ gallery = GalleryLiteral
    /\ galleryEvent = [name |-> "none", arg |-> 0, pre |-> GalleryLiteral, count |-> 0]

\* the theme of a page before DOMContentLoaded: both controllers' isDarkMode
\* false, no class dark, nothing stored, a light colour scheme
ThemeLiteral ==
    [sistema |-> FALSE, manager |-> FALSE, html |-> FALSE, body |-> FALSE,
     stored |-> Null, prefersDark |-> FALSE, status |-> FALSE, loaded |-> FALSE]

\* the argument of a theme event that is no click
NoControl == [id |-> "none", toggle |-> FALSE]

ThemeIdle ==
    /\ theme = ThemeLiteral
    /\ themeEvent = [name |-> "none", arg |-> NoControl, pre |-> ThemeLiteral,
                     before |-> "none", prior |-> ThemeLiteral,
                     clicks |-> 0, count |-> 0]

\* the calculator driven by any buttons and keys
CalcInit == Literal /\ keys = <<>> /\ ListIdle /\ CarouselIdle /\ GalleryIdle /\ ThemeIdle

\* the calculator driven by the keys of a chained calculation: a op1 b op2 c =
ChainInit ==
    /\ Literal
    /\ ListIdle
    /\ CarouselIdle
    /\ GalleryIdle
    /\ ThemeIdle
    /\ \E a \in Operands, b \in Operands, c \in Operands,
          op1 \in Operations, op2 \in Operations :
            keys = a \o <<op1>> \o b \o <<op2>> \o c \o <<"=">>

\* ------------------------------------------------ the operations, as functions
\* appendNumber, had it not rejected a second point
AppendNumberAnyPoint(c, number) ==
    LET reset == IF c.shouldResetScreen
                 THEN [c EXCEPT !.currentOperand = <<>>, !.shouldResetScreen = FALSE]
                 ELSE c
    IN IF reset.currentOperand = <<"0">> /\ number # Point
       THEN [reset EXCEPT !.currentOperand = <<number>>]
       ELSE [reset EXCEPT !.currentOperand = Append(@, number)]

\* appendNumber, had it not replaced the lone "0"
AppendNumberKeepingZero(c, number) ==
    LET reset == IF c.shouldResetScreen
                 THEN [c EXCEPT !.currentOperand = <<>>, !.shouldResetScreen = FALSE]
                 ELSE c
    IN IF number = Point /\ includes(reset.currentOperand, Point) THEN reset
       ELSE [reset EXCEPT !.currentOperand = Append(@, number)]

\* appendNumber(number) on the fields c
AppendNumber(c, number) ==
    LET reset == IF c.shouldResetScreen
                 THEN [c EXCEPT !.currentOperand = <<>>, !.shouldResetScreen = FALSE]
                 ELSE c
    IN IF number = Point /\ includes(reset.currentOperand, Point) THEN reset
       ELSE IF reset.currentOperand = <<"0">> /\ number # Point
            THEN [reset EXCEPT !.currentOperand = <<number>>]
            ELSE [reset EXCEPT !.currentOperand = Append(@, number)]

\* the switch of compute(): computation holds a number, or a text (written
\* [text |-> t]), or stays undefined when no case matches
Undefined == [undefined |-> TRUE]

Computation(op, prev, current) ==
    CASE op = "+" -> NumAdd(prev, current)
      [] op = "-" -> NumSub(prev, current)
      [] op \in {"*", "×"} -> NumMul(prev, current)
      [] op \in {"/", "÷"} -> IF IsZero(current) THEN [text |-> DivError]
                                ELSE NumDiv(prev, current)
      [] OTHER -> Undefined

\* typeof computation === 'number'
IsNumber(v) == "nan" \in DOMAIN v

\* computation.toFixed(10) for the number v that stands for computation: on
\* the double itself where its error decides the rounding
Fixed(v, op, prev, current) ==
    IF NearTie(v, prev, current, FixedDigits)
    THEN RatToFixed(DoubleOp(op, RoundDouble(RatOf(prev)), RoundDouble(RatOf(current))),
                    FixedDigits)
    ELSE toFixed(v, FixedDigits)

\* the text of computation, had compute() left toFixed(10) out
TextUnrounded(computation, op, prev, current) ==
    IF IsNumber(computation) THEN NumToString(computation) ELSE computation.text

\* computation.toString(), after parseFloat(computation.toFixed(10)) for a
\* number
Text(computation, op, prev, current) ==
    IF IsNumber(computation)
    THEN NumToString(parseFloat(Fixed(computation, op, prev, current)))
    ELSE computation.text

\* the text compute() stores for prev op current
ResultText(op, prev, current) ==
    Text(Computation(op, prev, current), op, prev, current)

\* compute, had it left shouldResetScreen alone
ComputeKeepingScreen(c) ==
    LET prev == parseFloat(c.previousOperand)
        current == parseFloat(c.currentOperand)
        computation == Computation(c.operation, prev, current)
    IN IF isNaN(prev) \/ isNaN(current) THEN c
       ELSE IF computation = Undefined THEN c
       ELSE Fields(Text(computation, c.operation, prev, current), <<>>, Null,
                   c.shouldResetScreen)

\* compute, had it tested only prev with isNaN
ComputeCheckingPrev(c) ==
    LET prev == parseFloat(c.previousOperand)
        current == parseFloat(c.currentOperand)
        computation == Computation(c.operation, prev, current)
    IN IF isNaN(prev) THEN c
       ELSE IF computation = Undefined THEN c
       ELSE Fields(Text(computation, c.operation, prev, current), <<>>, Null, TRUE)

\* the end of compute(), had it left previousOperand alone
StoreKeepingPrevious(c, prev, current, computation) ==
    IF computation = Undefined THEN c
    ELSE Fields(Text(computation, c.operation, prev, current), c.previousOperand, Null, TRUE)

\* the end of compute(): the fields once computation is set
Store(c, prev, current, computation) ==
    IF computation = Undefined THEN c
    ELSE Fields(Text(computation, c.operation, prev, current), <<>>, Null, TRUE)

\* compute(), had it not returned on NaN
SwitchUnguarded(c, prev, current) ==
    Store(c, prev, current, Computation(c.operation, prev, current))

\* compute() after its two calls of parseFloat
Switch(c, prev, current) ==
    IF isNaN(prev) \/ isNaN(current) THEN c
    ELSE Store(c, prev, current, Computation(c.operation, prev, current))

\* compute() on the fields c
Compute(c) == Switch(c, parseFloat(c.previousOperand), parseFloat(c.currentOperand))

\* chooseOperation, had it not computed the staged operation first
ChooseOperationNoFold(c, op) ==
    IF c.currentOperand = <<>> THEN c
    ELSE Fields(<<>>, c.currentOperand, op, c.shouldResetScreen)

\* chooseOperation, had it not returned on an empty currentOperand
ChooseOperationAlways(c, op) ==
    LET folded == IF c.previousOperand # <<>> THEN Compute(c) ELSE c
    IN Fields(<<>>, folded.currentOperand, op, folded.shouldResetScreen)

\* chooseOperation, had it not emptied currentOperand
ChooseOperationKeepingOperand(c, op) ==
    IF c.currentOperand = <<>> THEN c
    ELSE LET folded == IF c.previousOperand # <<>> THEN Compute(c) ELSE c
         IN Fields(folded.currentOperand, folded.currentOperand, op,
                   folded.shouldResetScreen)

\* the end of chooseOperation, had it staged only an operand that parses
StageParsed(folded, op) ==
    IF isNaN(parseFloat(folded.currentOperand)) THEN folded
    ELSE Fields(<<>>, folded.currentOperand, op, folded.shouldResetScreen)

\* the end of chooseOperation(operation): the fields folded staged with op
Stage(folded, op) ==
    Fields(<<>>, folded.currentOperand, op, folded.shouldResetScreen)

\* chooseOperation(operation) on the fields c
ChooseOperation(c, op) ==
    IF c.currentOperand = <<>> THEN c
    ELSE Stage(IF c.previousOperand # <<>> THEN Compute(c) ELSE c, op)

\* clear, had it reset shouldResetScreen as well
ClearAll(c) == Fields(<<"0">>, <<>>, Null, FALSE)

\* clear, had it reset currentOperand only
ClearDisplayOnly(c) == [c EXCEPT !.currentOperand = <<"0">>]

\* clear() on the fields c
Clear(c) ==
    [c EXCEPT !.currentOperand = <<"0">>, !.previousOperand = <<>>,
              !.operation = Null]

\* delete, had it treated the error text as any other text
DeleteAnyText(c) ==
    IF Len(c.currentOperand) = 1
    THEN [c EXCEPT !.currentOperand = <<"0">>]
    ELSE [c EXCEPT !.currentOperand = SubSeq(@, 1, Len(@) - 1)]

\* delete, had it sliced an operand of one character too
DeleteToEmpty(c) ==
    IF c.currentOperand = DivError
    THEN [c EXCEPT !.currentOperand = <<"0">>]
    ELSE [c EXCEPT !.currentOperand = SubSeq(@, 1, Len(@) - 1)]

\* delete() on the fields c
Delete(c) ==
    IF Len(c.currentOperand) = 1 \/ c.currentOperand = DivError
    THEN [c EXCEPT !.currentOperand = <<"0">>]
    ELSE [c EXCEPT !.currentOperand = SubSeq(@, 1, Len(@) - 1)]

\* the keydown listener on the fields c
KeyDown(c, key) ==
    IF IsDigitChar(key) THEN AppendNumber(c, key)
    ELSE IF key = "." THEN AppendNumber(c, ".")
    ELSE IF key \in {"+", "-", "*", "/"} THEN ChooseOperation(c, key)
    ELSE IF key \in {"Enter", "="} THEN Compute(c)
    ELSE IF key = "Escape" THEN Clear(c)
    ELSE IF key = "Backspace" THEN Delete(c)
    ELSE c

\* ----------------------------------------------- the operations, as actions
Becomes(name, arg, after) ==
    /\ currentOperand' = after.currentOperand
    /\ previousOperand' = after.previousOperand
    /\ operation' = after.operation
    /\ shouldResetScreen' = after.shouldResetScreen
    /\ last' = [op |-> name, arg |-> arg, pre |-> Now]
    /\ UNCHANGED <<listVars, widgetVars>>

\* a click or key that calls one operation
Step(name, arg, after) ==
    /\ steps < MaxSteps
    /\ Becomes(name, arg, after)
    /\ steps' = steps + 1
    /\ UNCHANGED <<keys, entered>>

appendNumber == \E number \in Numbers : Step("appendNumber", number, AppendNumber(Now, number))

chooseOperation ==
    \E op \in Operations :
        Step("chooseOperation", op, ChooseOperation(Now, op))

compute == Step("compute", Null, Compute(Now))

clear == Step("clear", Null, Clear(Now))

delete == Step("delete", Null, Delete(Now))

CalcNext ==
    \/ appendNumber
    \/ chooseOperation
    \/ compute
    \/ clear
    \/ delete

CalcSpec == CalcInit /\ [][CalcNext]_vars

\* the next pending key reaches the keydown listener
keydown ==
    /\ keys # <<>>
    /\ Becomes("keydown", Head(keys), KeyDown(Now, Head(keys)))
    /\ keys' = Tail(keys)
    /\ entered' = IF Head(keys) \in Numbers THEN entered
                  ELSE Append(entered, [operand |-> currentOperand, key |-> Head(keys)])
    /\ UNCHANGED steps

ChainSpec == ChainInit /\ [][keydown]_vars

\* ====================================================================
\* DynamicList (module 3) and the JSON text it keeps in localStorage
\* ====================================================================

\* ------------------------------------------------------ JavaScript values
\* A value is a record whose type names its kind.  The properties of an
\* object are its <<key, value>> pairs in insertion order.
JSUndefined == [type |-> "undefined"]

JSNull == [type |-> "null"]

JSString(s) == [type |-> "string", text |-> s]

JSNumber(n) == [type |-> "number", value |-> n]

JSArray(e) == [type |-> "array", elements |-> e]

JSObject(p) == [type |-> "object", properties |-> p]

Quote == "\""

Backslash == "\\"

NullText == <<"n", "u", "l", "l">>

\* the sequences of ss one after the other
RECURSIVE Flat(_)
Flat(ss) ==
    IF ss = <<>> THEN <<>>
    ELSE IF Len(ss) = 1 THEN ss[1]
    ELSE Flat(SubSeq(ss, 1, Len(ss) \div 2))
           \o Flat(SubSeq(ss, Len(ss) \div 2 + 1, Len(ss)))

\* the texts ss with a comma between each two
Joined(ss) ==
    Flat([i \in 1..Len(ss) |-> IF i = 1 THEN ss[i] ELSE <<",">> \o ss[i]])

\* the decimal text of the natural number n
NaturalText(n) == IF n = 0 THEN <<"0">> ELSE DigitText(NatDigits(n))

\* --------------------------------------------------------- JSON.stringify
\* the character as it is, had stringify escaped nothing
PlainChar(c) == <<c>>

\* a quote or a backslash is written behind a backslash
EscapedChar(c) == IF c = Quote \/ c = Backslash THEN <<Backslash, c>> ELSE <<c>>

QuotedText(s) ==
    IF \A i \in 1..Len(s) : s[i] # Quote /\ s[i] # Backslash
    THEN <<Quote>> \o s \o <<Quote>>
    ELSE <<Quote>> \o Flat([i \in 1..Len(s) |-> EscapedChar(s[i])]) \o <<Quote>>

\* the properties that are written: those whose value is not undefined
Defined(p) == SelectSeq(p, LAMBDA m : m[2].type # "undefined")

RECURSIVE stringify(_)

\* "key":value
MemberText(m) == QuotedText(m[1]) \o <<":">> \o stringify(m[2])

MemberTexts(p) == [i \in 1..Len(p) |-> MemberText(p[i])]

\* an element that is undefined is written as null
ElementText(v) == IF v.type = "undefined" THEN NullText ELSE stringify(v)

\* JSON.stringify(v) of a value v that is not undefined
stringify(v) ==
    IF v.type = "string" THEN QuotedText(v.text)
    ELSE IF v.type = "number" THEN NaturalText(v.value)
    ELSE IF v.type = "array"
         THEN <<"[">>
                \o Joined([i \in 1..Len(v.elements) |-> ElementText(v.elements[i])])
                \o <<"]">>
    ELSE IF v.type = "object"
         THEN <<"{">> \o Joined(MemberTexts(Defined(v.properties))) \o <<"}">>
    ELSE NullText

\* ------------------------------------------------------------- JSON.parse
\* Texts of strings, natural numbers, null, arrays and objects with no
\* white space between the tokens; in a string the escapes \" and \\.
\* Every other text is a SyntaxError.
Failed == [ok |-> FALSE, value |-> JSUndefined, next |-> 0]

\* the value v was read and the text goes on at place n
Found(v, n) == [ok |-> TRUE, value |-> v, next |-> n]

\* the character at place i of s, "" past its end
At(s, i) == IF i >= 1 /\ i <= Len(s) THEN s[i] ELSE ""

\* the number of backslashes right before place k of s
BackslashesBefore(s, k) ==
    CHOOSE n \in 0..(k - 1) :
        /\ \A j \in (k - n)..(k - 1) : s[j] = Backslash
        /\ n = k - 1 \/ s[k - n - 1] # Backslash

\* place k of s is behind an escaping backslash
Escaped(s, k) == BackslashesBefore(s, k) % 2 = 1

\* place k of s closes a string: a quote that is not escaped
ClosesAt(s, k) == s[k] = Quote /\ ~Escaped(s, k)

\* the first place after i that closes the string opened at i, 0 when
\* there is none
StringEnd(s, i) ==
    IF \A k \in (i + 1)..Len(s) : ~ClosesAt(s, k) THEN 0
    ELSE CHOOSE k \in (i + 1)..Len(s) :
            ClosesAt(s, k) /\ \A j \in (i + 1)..(k - 1) : ~ClosesAt(s, j)

\* the characters of s at the places ks, in order
Pick(s, ks) ==
    [n \in 1..Cardinality(ks) |->
        s[CHOOSE k \in ks : Cardinality({j \in ks : j <= k}) = n]]

\* the places between i and e that hold a character of the string: all but
\* the escaping backslashes
Kept(s, i, e) == {k \in (i + 1)..(e - 1) : s[k] # Backslash \/ Escaped(s, k)}

StringBody(s, i, e) ==
    IF \A k \in (i + 1)..(e - 1) : s[k] # Backslash THEN SubSeq(s, i + 1, e - 1)
    ELSE Pick(s, Kept(s, i, e))

ValidEscapes(s, i, e) ==
    \A k \in (i + 1)..(e - 1) : Escaped(s, k) => s[k] = Quote \/ s[k] = Backslash

StringTo(s, i, e) ==
    IF e = 0 THEN Failed
    ELSE IF ~ValidEscapes(s, i, e) THEN Failed
    ELSE Found(JSString(StringBody(s, i, e)), e + 1)

\* the string that opens at place i of s
StringAt(s, i) == StringTo(s, i, StringEnd(s, i))

\* a number of several digits does not start with 0
NumberOf(d, i) ==
    IF Len(d) > 1 /\ d[1] = 0 THEN Failed
    ELSE Found(JSNumber(NatVal(d)), i + Len(d))

NumberAt(s, i) == NumberOf(DigitRun(s, i), i)

\* the properties p with key k set to v: in k's place when p has the key
Put(p, k, v) ==
    IF \E n \in 1..Len(p) : p[n][1] = k
    THEN [n \in 1..Len(p) |-> IF p[n][1] = k THEN <<k, v>> ELSE p[n]]
    ELSE Append(p, <<k, v>>)

RECURSIVE ValueAt(_, _), ElementsAt(_, _, _), MembersAt(_, _, _)

\* after the element r: a comma and more elements, or the closing bracket
ElementsAfter(s, acc, r) ==
    IF ~r.ok THEN Failed
    ELSE IF At(s, r.next) = "," THEN ElementsAt(s, r.next + 1, Append(acc, r.value))
    ELSE IF At(s, r.next) = "]" THEN Found(JSArray(Append(acc, r.value)), r.next + 1)
    ELSE Failed

ElementsAt(s, i, acc) == ElementsAfter(s, acc, ValueAt(s, i))

ArrayAt(s, i) ==
    IF At(s, i + 1) = "]" THEN Found(JSArray(<<>>), i + 2)
    ELSE ElementsAt(s, i + 1, <<>>)

\* after the value r of the key: a comma and more members, or the closing brace
MembersAfter(s, acc, key, r) ==
    IF ~r.ok THEN Failed
    ELSE IF At(s, r.next) = "," THEN MembersAt(s, r.next + 1, Put(acc, key, r.value))
    ELSE IF At(s, r.next) = "}" THEN Found(JSObject(Put(acc, key, r.value)), r.next + 1)
    ELSE Failed

MemberValue(s, acc, key) ==
    IF ~key.ok THEN Failed
    ELSE IF At(s, key.next) # ":" THEN Failed
    ELSE MembersAfter(s, acc, key.value.text, ValueAt(s, key.next + 1))

MembersAt(s, i, acc) ==
    IF At(s, i) # Quote THEN Failed ELSE MemberValue(s, acc, StringAt(s, i))

ObjectAt(s, i) ==
    IF At(s, i + 1) = "}" THEN Found(JSObject(<<>>), i + 2)
    ELSE MembersAt(s, i + 1, <<>>)

IsNullAt(s, i) == i + 3 <= Len(s) /\ SubSeq(s, i, i + 3) = NullText

\* the value whose text starts at place i of s
ValueAt(s, i) ==
    IF At(s, i) = Quote THEN StringAt(s, i)
    ELSE IF At(s, i) = "[" THEN ArrayAt(s, i)
    ELSE IF At(s, i) = "{" THEN ObjectAt(s, i)
    ELSE IF IsDigitChar(At(s, i)) THEN NumberAt(s, i)
    ELSE IF IsNullAt(s, i) THEN Found(JSNull, i + 4)
    ELSE Failed

\* the text s is one value from its first character to its last
Whole(s, r) == IF r.ok /\ r.next = Len(s) + 1 THEN r ELSE Failed

\* JSON.parse(s): ok and the value, or not ok for a SyntaxError
parse(s) == Whole(s, ValueAt(s, 1))

\* ------------------------------------------------- reading JavaScript values
IdKey == <<"i", "d">>

TitleKey == <<"t", "i", "t", "l", "e">>

DescriptionKey == <<"d", "e", "s", "c", "r", "i", "p", "t", "i", "o", "n">>

ValueKey == <<"v", "a", "l", "u", "e">>

CreatedAtKey == <<"c", "r", "e", "a", "t", "e", "d", "A", "t">>

\* 'Sin título'
NoTitle == <<"S", "i", "n", " ", "t", "í", "t", "u", "l", "o">>

\* 'Sin descripción'
NoDescription ==
    <<"S", "i", "n", " ", "d", "e", "s", "c", "r", "i", "p", "c", "i", "ó", "n">>

\* reading a property of null or undefined is a TypeError
Nullish(v) == v.type = "null" \/ v.type = "undefined"

HasKey(p, key) == \E n \in 1..Len(p) : p[n][1] = key

\* v.key of a value v that is not nullish
Get(v, key) ==
    IF v.type # "object" THEN JSUndefined
    ELSE IF ~HasKey(v.properties, key) THEN JSUndefined
    ELSE v.properties[CHOOSE n \in 1..Len(v.properties) : v.properties[n][1] = key][2]

\* v in a condition
Truthy(v) ==
    IF v.type = "string" THEN v.text # <<>>
    ELSE IF v.type = "number" THEN v.value # 0
    ELSE ~Nullish(v)

\* a === b; two objects or arrays read from a text are never the same one
StrictEquals(a, b) == a.type \notin {"array", "object"} /\ a = b

RECURSIVE TextOf(_)

\* in the text of an array null and undefined are empty
ElementString(v) == IF Nullish(v) THEN <<>> ELSE TextOf(v)

\* `${v}`
TextOf(v) ==
    IF v.type = "string" THEN v.text
    ELSE IF v.type = "number" THEN NaturalText(v.value)
    ELSE IF v.type = "array"
         THEN Joined([i \in 1..Len(v.elements) |-> ElementString(v.elements[i])])
    ELSE IF v.type = "object"
         THEN <<"[", "o", "b", "j", "e", "c", "t", " ", "O", "b", "j", "e", "c", "t", "]">>
    ELSE IF v.type = "null" THEN NullText
    ELSE <<"u", "n", "d", "e", "f", "i", "n", "e", "d">>

\* ------------------------------------------------------------------ dates
\* The clock counts the milliseconds of the first second of the epoch.
ISOPrefix ==
    <<"1", "9", "7", "0", "-", "0", "1", "-", "0", "1", "T",
      "0", "0", ":", "0", "0", ":", "0", "0", ".">>

\* new Date(t).toISOString()
toISOString(t) == ISOPrefix \o DigitText(PadTo(NatDigits(t), 3)) \o <<"Z">>

IsISOString(s) ==
    /\ Len(s) = Len(ISOPrefix) + 4
    /\ SubSeq(s, 1, Len(ISOPrefix)) = ISOPrefix
    /\ \A i \in 1..3 : IsDigitChar(s[Len(ISOPrefix) + i])
    /\ s[Len(s)] = "Z"

\* new Date(v) is a date: of the text toISOString writes, of a number of
\* milliseconds, of null (the epoch); any other text and undefined are not
IsDate(v) ==
    IF v.type = "string" THEN IsISOString(v.text)
    ELSE v.type = "number" \/ v.type = "null"

\* new Date(v).toLocaleDateString(): the day of the first second of the
\* epoch (es, UTC), or 'Invalid Date'
toLocaleDateString(v) ==
    IF IsDate(v) THEN <<"1", "/", "1", "/", "1", "9", "7", "0">>
    ELSE <<"I", "n", "v", "a", "l", "i", "d", " ", "D", "a", "t", "e">>

\* ------------------------------------------------------------ DynamicList
NoFault == "none"

LengthKey == <<"l", "e", "n", "g", "t", "h">>

\* the DynamicList object, the stored text and the page as one value
ListFields(its, sto, con, chi, hid, flt, ret, set) ==
    [items |-> its, storage |-> sto, container |-> con, children |-> chi,
     emptyHidden |-> hid, fault |-> flt, returned |-> ret, sets |-> set]

ListNow ==
    ListFields(items, storage, container, children, emptyHidden, fault,
               returned, sets)

\* the exception of that name leaves the method
Throw(d, name) == [d EXCEPT !.fault = name]

\* item.key || text
OrText(v, text) == IF Truthy(v) THEN TextOf(v) ELSE text

\* the value line, written when item.value is truthy
ValueLine(v) == IF Truthy(v) THEN <<TextOf(v)>> ELSE <<>>

\* the card of an item that is not null or undefined; color is
\* Math.floor(Math.random() * 5), removes the id its button removes
CreateItemElement(item, color) ==
    [id |-> TextOf(Get(item, IdKey)),
     color |-> color,
     title |-> OrText(Get(item, TitleKey), NoTitle),
     date |-> toLocaleDateString(Get(item, CreatedAtKey)),
     description |-> OrText(Get(item, DescriptionKey), NoDescription),
     value |-> ValueLine(Get(item, ValueKey)),
     removes |-> Get(item, IdKey)]

\* the number of elements of e before the first that is null or undefined
Renderable(e) ==
    CHOOSE n \in 0..Len(e) :
        /\ \A i \in 1..n : ~Nullish(e[i])
        /\ n = Len(e) \/ Nullish(e[n + 1])

\* the cards appended behind those there, had render() not emptied the
\* container
CardsAppended(d, e, n, colors) ==
    [d EXCEPT !.children = @ \o [i \in 1..n |-> CreateItemElement(e[i], colors[i])],
              !.emptyHidden = TRUE,
              !.fault = IF n < Len(e) THEN "TypeError" ELSE NoFault]

\* forEach over the elements e appends the cards of the first n; the next
\* element, if there is one, has no id to read
Cards(d, e, n, colors) ==
    [d EXCEPT !.children = [i \in 1..n |-> CreateItemElement(e[i], colors[i])],
              !.emptyHidden = TRUE,
              !.fault = IF n < Len(e) THEN "TypeError" ELSE NoFault]

\* v.length === 0
IsEmpty(v) ==
    IF v.type = "array" THEN v.elements = <<>>
    ELSE IF v.type = "string" THEN v.text = <<>>
    ELSE Get(v, LengthKey) = JSNumber(0)

Render(d, colors) ==
    IF ~d.container THEN d
    ELSE IF Nullish(d.items) THEN [d EXCEPT !.children = <<>>, !.fault = "TypeError"]
    ELSE IF IsEmpty(d.items) THEN [d EXCEPT !.children = <<>>, !.emptyHidden = FALSE]
    ELSE IF d.items.type # "array"
         THEN [d EXCEPT !.children = <<>>, !.emptyHidden = TRUE, !.fault = "TypeError"]
    ELSE Cards(d, d.items.elements, Renderable(d.items.elements), colors)

\* the number of cards render() colours
Draws(d) ==
    IF d.fault # NoFault \/ ~d.container THEN 0
    ELSE IF d.items.type # "array" THEN 0
    ELSE Renderable(d.items.elements)

\* saveToLocalStorage, had it stored nothing
SaveNothing(d, fails) ==
    IF fails THEN [d EXCEPT !.sets = @ + 1, !.fault = "QuotaExceededError"]
    ELSE [d EXCEPT !.sets = @ + 1]

\* saveToLocalStorage, had it caught what setItem throws
SaveSwallowing(d, fails) ==
    IF fails THEN [d EXCEPT !.sets = @ + 1]
    ELSE [d EXCEPT !.sets = @ + 1, !.storage = JSString(stringify(d.items))]

\* localStorage.setItem is called once: it stores the text, or throws
\* when fails
SaveToLocalStorage(d, fails) ==
    IF fails THEN [d EXCEPT !.sets = @ + 1, !.fault = "QuotaExceededError"]
    ELSE [d EXCEPT !.sets = @ + 1, !.storage = JSString(stringify(d.items))]

\* the next call of a method: not reached behind an exception
Saved(d, fails) == IF d.fault # NoFault THEN d ELSE SaveToLocalStorage(d, fails)

Rendered(d, colors) == IF d.fault # NoFault THEN d ELSE Render(d, colors)

Returned(d, v) == IF d.fault # NoFault THEN d ELSE [d EXCEPT !.returned = v]

\* { ...q } into the properties p
RECURSIVE Spread(_, _)
Spread(p, q) ==
    IF q = <<>> THEN p ELSE Spread(Put(p, q[1][1], q[1][2]), Tail(q))

\* { id: Date.now(), ...itemData, createdAt: new Date().toISOString() }
NewItem(itemData, id, created) ==
    JSObject(Put(Spread(<< <<IdKey, JSNumber(id)>> >>, itemData.properties),
                 CreatedAtKey, JSString(toISOString(created))))

\* this.items.push(item), had addItem put the item last
Push(d, item) ==
    IF d.items.type # "array" THEN Throw(d, "TypeError")
    ELSE [d EXCEPT !.items = JSArray(Append(d.items.elements, item))]

\* this.items.unshift(item)
Unshift(d, item) ==
    IF d.items.type # "array" THEN Throw(d, "TypeError")
    ELSE [d EXCEPT !.items = JSArray(<<item>> \o d.items.elements)]

\* addItem up to its call of render()
AddItemSaved(d, item, fails) == Saved(Unshift(d, item), fails)

\* the rest of addItem: render() and return newItem
AddItemRendered(saved, item, colors) == Returned(Rendered(saved, colors), item)

\* this.items.filter(item => item.id !== itemId)
Filter(d, itemId) ==
    IF d.items.type # "array" THEN Throw(d, "TypeError")
    ELSE IF Renderable(d.items.elements) < Len(d.items.elements) THEN Throw(d, "TypeError")
    ELSE [d EXCEPT !.items =
            JSArray(SelectSeq(d.items.elements,
                              LAMBDA item : ~StrictEquals(Get(item, IdKey), itemId)))]

RemoveItemSaved(d, itemId, fails) == Saved(Filter(d, itemId), fails)

ClearAllSaved(d, fails) == Saved([d EXCEPT !.items = JSArray(<<>>)], fails)

\* this.items = JSON.parse(savedItems)
Assigned(d, r) ==
    IF ~r.ok THEN Throw(d, "SyntaxError") ELSE [d EXCEPT !.items = r.value]

\* init up to its call of render(); getElementById finds the container
Loaded(d) ==
    IF ~Truthy(d.storage) THEN [d EXCEPT !.container = TRUE]
    ELSE Assigned([d EXCEPT !.container = TRUE], parse(d.storage.text))

\* the rest of init: render() when there was a text
InitRendered(loaded, colors) ==
    IF ~Truthy(loaded.storage) THEN loaded ELSE Rendered(loaded, colors)

InitDraws(loaded) == IF ~Truthy(loaded.storage) THEN 0 ELSE Draws(loaded)

\* the object literal on a page just loaded, the stored text as it is
Document(sto) ==
    ListFields(JSArray(<<>>), sto, FALSE, <<>>, FALSE, NoFault, JSUndefined, 0)

\* a call starts with no exception and nothing returned
Entered(d) == [d EXCEPT !.fault = NoFault, !.returned = JSUndefined, !.sets = 0]

\* ------------------------------------------------------------- list bounds
\* Texts found under 'dynamicListItems' when the page loads: none, the
\* empty text, the empty list, a list of one item, a list of two items of
\* one id, and texts that are no list: cut short, an object, a list of
\* null, null.
StoredItem(title) ==
    JSObject(<< <<IdKey, JSNumber(0)>>, <<TitleKey, JSString(title)>>,
                <<CreatedAtKey, JSString(toISOString(0))>> >>)

Blobs ==
    {JSNull,
     JSString(<<>>),
     JSString(<<"[", "]">>),
     JSString(stringify(JSArray(<<StoredItem(<<"a">>)>>))),
     JSString(stringify(JSArray(<<StoredItem(<<"a">>), StoredItem(<<"b">>)>>))),
     JSString(<<"{">>),
     JSString(<<"{", "}">>),
     JSString(<<"[", "n", "u", "l", "l", "]">>),
     JSString(NullText)}

\* What the callers of addItem pass: the three fields of the form, two of
\* them empty and the title with a quote and a backslash, and no field.
ItemData ==
    {JSObject(<< <<TitleKey, JSString(<<"a">>)>>,
                 <<DescriptionKey, JSString(<<"b">>)>>,
                 <<ValueKey, JSString(<<"1">>)>> >>),
     JSObject(<< <<TitleKey, JSString(<<Quote, Backslash>>)>>,
                 <<DescriptionKey, JSString(<<>>)>>,
                 <<ValueKey, JSString(<<>>)>> >>),
     JSObject(<<>>)}

\* Two of the five indices Math.floor(Math.random() * 5) gives.
Colors == {0, 4}

\* The milliseconds the clock shows.
Instants == {0, 1}

\* the colours of n cards
ColorRuns(n) == [1..n -> Colors]

\* ------------------------------------------------------------ list actions
ListInit ==
    /\ Literal
    /\ CarouselIdle
    /\ GalleryIdle
    /\ ThemeIdle
    /\ keys = <<>>
    /\ items = JSArray(<<>>)
    /\ storage \in Blobs
    /\ container = FALSE
    /\ children = <<>>
    /\ emptyHidden = FALSE
    /\ fault = NoFault
    /\ returned = JSUndefined
    /\ sets = 0
    /\ clock = 0
    /\ call = [name |-> "none", arg |-> JSUndefined, fails |-> FALSE, pre |-> JSUndefined]
    /\ calls = 0

ListBecomes(name, arg, fails, after) ==
    /\ items' = after.items
    /\ storage' = after.storage
    /\ container' = after.container
    /\ children' = after.children
    /\ emptyHidden' = after.emptyHidden
    /\ fault' = after.fault
    /\ returned' = after.returned
    /\ sets' = after.sets
    /\ call' = [name |-> name, arg |-> arg, fails |-> fails, pre |-> ListNow]

\* one call of a method of DynamicList
ListStep(name, arg, fails, after) ==
    /\ calls < MaxCalls
    /\ ListBecomes(name, arg, fails, after)
    /\ calls' = calls + 1
    /\ UNCHANGED <<calcAll, widgetVars>>

\* the page loads: App.init finds 'lista-dinamica' and calls DynamicList.init()
InitStep(loaded) ==
    \E colors \in ColorRuns(InitDraws(loaded)) :
        ListStep("init", JSUndefined, FALSE, InitRendered(loaded, colors))

init == InitStep(Loaded(Document(storage))) /\ UNCHANGED clock

AddItemStep(itemData, item, fails, saved) ==
    \E colors \in ColorRuns(Draws(saved)) :
        ListStep("addItem", itemData, fails, AddItemRendered(saved, item, colors))

AddItemCall(itemData, item, fails) ==
    AddItemStep(itemData, item, fails, AddItemSaved(Entered(ListNow), item, fails))

\* Date.now() and new Date() read the clock in the same millisecond
addItem ==
    /\ container
    /\ items.type = "array" => Len(items.elements) < MaxItems
    /\ \E itemData \in ItemData, fails \in BOOLEAN :
         AddItemCall(itemData, NewItem(itemData, clock, clock), fails)
    /\ UNCHANGED clock

RemoveItemStep(itemId, fails, saved) ==
    \E colors \in ColorRuns(Draws(saved)) :
        ListStep("removeItem", itemId, fails, Rendered(saved, colors))

\* a click on the button of a card, or a call with any id
removeItem ==
    /\ container
    /\ \E itemId \in {JSNumber(t) : t \in Instants}
                       \cup {children[i].removes : i \in 1..Len(children)},
          fails \in BOOLEAN :
         RemoveItemStep(itemId, fails, RemoveItemSaved(Entered(ListNow), itemId, fails))
    /\ UNCHANGED clock

ClearAllStep(fails, saved) ==
    \E colors \in ColorRuns(Draws(saved)) :
        ListStep("clearAll", JSUndefined, fails, Rendered(saved, colors))

clearAll ==
    /\ container
    /\ \E fails \in BOOLEAN : ClearAllStep(fails, ClearAllSaved(Entered(ListNow), fails))
    /\ UNCHANGED clock

RenderStep(d) ==
    \E colors \in ColorRuns(Draws(d)) : ListStep("render", JSUndefined, FALSE, Render(d, colors))

render == container /\ RenderStep(Entered(ListNow)) /\ UNCHANGED clock

\* time passes
tick ==
    /\ \E t \in Instants : t > clock /\ clock' = t
    /\ UNCHANGED <<items, storage, container, children, emptyHidden, fault,
                   returned, sets, call, calls>>
    /\ UNCHANGED <<calcAll, widgetVars>>

ListNext ==
    \/ init
    \/ addItem
    \/ removeItem
    \/ clearAll
    \/ render
    \/ tick

ListSpec == ListInit /\ [][ListNext]_vars

\* the list of a browser that has nothing stored
StoreInit == ListInit /\ storage = JSNull

StoreSpec == StoreInit /\ [][ListNext]_vars

\* ------------------------------------------------------------ the display
\* the place of the first point of s, 0 when it has none
FirstPoint(s) ==
    IF ~includes(s, Point) THEN 0
    ELSE CHOOSE i \in 1..Len(s) : s[i] = Point /\ \A j \in 1..(i - 1) : s[j] # Point

\* the text of s before the point at place p, all of s when p is 0
UpTo(s, p) == IF p = 0 THEN s ELSE SubSeq(s, 1, p - 1)

\* split('.')[1] of a text whose first point has rest behind it
DecimalDigits(rest) == UpTo(rest, FirstPoint(rest))

\* the digits t with a point before each group of three, which the locale
\* es writes in an integer of five digits or more
Grouped(t) ==
    IF Len(t) < 5 THEN t
    ELSE Flat([i \in 1..Len(t) |->
                 IF i > 1 /\ (Len(t) - i + 1) % 3 = 0 THEN <<Point, t[i]>>
                 ELSE <<t[i]>>])

\* x.toLocaleString('es', { maximumFractionDigits: 0 })
toLocaleString(x) ==
    (IF x.neg THEN <<"-">> ELSE <<>>) \o Grouped(toFixed([x EXCEPT !.neg = FALSE], 0))

\* integerDisplay for integerDigits
IntegerDisplay(integerDigits) ==
    IF isNaN(integerDigits) THEN <<>> ELSE toLocaleString(integerDigits)

\* getDisplayNumber, had it tested decimalDigits for truth and not for null
GroupingTruthy(s, p) ==
    IF p = 0 \/ p = Len(s) THEN IntegerDisplay(parseFloat(UpTo(s, p)))
    ELSE IntegerDisplay(parseFloat(UpTo(s, p)))
           \o <<Point>> \o DecimalDigits(SubSeq(s, p + 1, Len(s)))

\* getDisplayNumber on a text with its first point at place p
Grouping(s, p) ==
    IF p = 0 THEN IntegerDisplay(parseFloat(s))
    ELSE IntegerDisplay(parseFloat(UpTo(s, p)))
           \o <<Point>> \o DecimalDigits(SubSeq(s, p + 1, Len(s)))

GetDisplayNumber(number) ==
    IF number = DivError THEN number ELSE Grouping(number, FirstPoint(number))

\* display.textContent and previousDisplay.textContent after updateDisplay()
Display == GetDisplayNumber(currentOperand)

PreviousDisplay ==
    IF operation # Null THEN GetDisplayNumber(previousOperand) \o <<" ", operation>>
    ELSE <<>>

\* -------------------------------------------------- operands on the display
\* Keys that put on the display operands long enough to be grouped, with and
\* without decimals, a trailing point, a negative result, the error text
\* a staged operand,
\* and quotients and sums with more decimals than compute() keeps.
ShownKeys ==
    {<<"1", "2", "3", "4", "5", ".", "1", "2", "3", "4", "5">>,
     <<"1", "2", "3", "4", ".", "5", "6", "7", "8", "9">>,
     <<"1", "2", "3", "4", "5", "6", "7", "8", "9", ".">>,
     <<"1", "0", "0", "0", "0", "0", "0", "Backspace", "Backspace">>,
     <<"1", "2", ".", "+">>,
     <<"1", "/", "0", "=", "7">>,
     <<"1", "2", "3", "4", "5", "*", "1", "2", "3", "4", "5", "=">>,
     <<"0", "-", "1", "2", "3", "4", "5", "=", "Backspace">>,
     <<"1", "2", "3", "4", "5", ".", "5", "+", "1">>,
     <<"1", "+", ".", "5", "=">>,
     <<"1", "-", "3", "=", "Backspace">>,
     <<"9", "9", "9", "9", "9", ".", "9", "9", "Backspace", "Backspace", "Backspace">>,
     <<"1", "/", "3", "=">>,
     <<"1", "2", "3", "4", "5", "6", "Escape", "1", "2">>,
     <<"0", ".", "0", "0", "0", "0", "2", "5", "5", "*", "2", "=">>,
     <<"2", "/", "3", "=">>,
     <<"1", "0", "/", "3", "=">>,
     <<".", "0", "0", "0", "0", "0", "1", "/", "3", "=">>,
     <<".", "0", "0", "0", "0", "2", "5", "5", "/", "1", "0", "0", "=">>,
     <<"1", "/", "7", "=", "+">>,
     <<"0", ".", "1", "+", "0", ".", "2", "=">>,
     <<"1", "/", "9", "9", "9", "9", "9", "9", "9", "9", "9", "9", "9", "=">>}

\* the calculator driven by the keys of one of these entries
ShowInit == Literal /\ ListIdle /\ CarouselIdle /\ GalleryIdle /\ ThemeIdle /\ keys \in ShownKeys

ShowSpec == ShowInit /\ [][keydown]_vars

\* ====================================================================
\* ImageCarousel (module 4)
\* ====================================================================
\* carousel holds the fields of the object, the classes of its elements and
\* the intervals it has set: items[k] and indicators[k] say whether slide k
\* and indicator k have the class active, interval is 0 for null and the id
\* of an interval otherwise, timers are the ids of the intervals that
\* setInterval has started and clearInterval has not cleared, started counts
\* the calls of setInterval.

\* createIndicators(): one indicator for each item, none of them active
CreateIndicators(c) ==
    IF c.indicatorsContainer
    THEN [c EXCEPT !.indicators = [k \in 1..Len(c.items) |-> FALSE]]
    ELSE c

\* showSlide(index), had it taken index as the place of the slide
ShowSlideUnwrapped(c, index) ==
    IF Len(c.items) = 0 THEN c
    ELSE [c EXCEPT !.currentIndex = index,
                   !.items = [k \in 1..Len(c.items) |-> k = index + 1],
                   !.indicators = [k \in 1..Len(c.indicators) |-> k = index + 1]]

\* showSlide(index) for index + items.length >= 0, with updateIndicators()
ShowSlide(c, index) ==
    IF Len(c.items) = 0 THEN c
    ELSE [c EXCEPT !.currentIndex = (index + Len(c.items)) % Len(c.items),
                   !.items = [k \in 1..Len(c.items) |->
                                k = ((index + Len(c.items)) % Len(c.items)) + 1],
                   !.indicators = [k \in 1..Len(c.indicators) |->
                                     k = ((index + Len(c.items)) % Len(c.items)) + 1]]

\* startAutoPlay(), had it not cleared the interval it holds
StartAutoPlayKeeping(c) ==
    [c EXCEPT !.timers = @ \cup {c.started + 1},
              !.interval = c.started + 1,
              !.started = @ + 1,
              !.isPlaying = TRUE]

\* startAutoPlay()
StartAutoPlay(c) ==
    [c EXCEPT !.timers = (@ \ {c.interval}) \cup {c.started + 1},
              !.interval = c.started + 1,
              !.started = @ + 1,
              !.isPlaying = TRUE]

\* pauseAutoPlay()
PauseAutoPlay(c) ==
    IF c.interval # 0
    THEN [c EXCEPT !.timers = @ \ {c.interval}, !.interval = 0, !.isPlaying = FALSE]
    ELSE c

\* toggleAutoPlay()
ToggleAutoPlay(c) == IF c.isPlaying THEN PauseAutoPlay(c) ELSE StartAutoPlay(c)

\* goToSlide(index), and the click listeners of the buttons with
\* currentIndex - 1 and currentIndex + 1
GoToSlide(c, index) == StartAutoPlay(ShowSlide(PauseAutoPlay(c), index))

\* the keydown listener when the focus is in the container
CarouselKeyDown(c, key) ==
    IF key = "ArrowLeft" THEN ShowSlide(c, c.currentIndex - 1)
    ELSE IF key = "ArrowRight" THEN ShowSlide(c, c.currentIndex + 1)
    ELSE IF key = " " THEN ToggleAutoPlay(c)
    ELSE c

\* addImage(imageUrl, title, description)
AddImage(c) == CreateIndicators([c EXCEPT !.items = Append(@, FALSE)])

\* the end of init(): startAutoPlay() when isPlaying
Played(c) == IF c.isPlaying THEN StartAutoPlay(c) ELSE c

\* init() on a page whose container has the slides with these classes
CarouselLoaded(c, slides, indicatorsContainer) ==
    Played(ShowSlide(CreateIndicators([c EXCEPT !.container = TRUE,
                                                !.items = slides,
                                                !.indicatorsContainer = indicatorsContainer]),
                     c.currentIndex))

\* the slides of a page: each with or without the class active
Slides == UNION {[1..n -> BOOLEAN] : n \in 0..MaxSlides}

\* ------------------------------------------------- the events, as actions
CarouselBecomes(name, arg, after) ==
    /\ event.count < MaxEvents
    /\ carousel' = after
    /\ event' = [name |-> name, arg |-> arg, pre |-> carousel,
                 slides |-> IF name = "init" THEN Len(after.items) ELSE event.slides,
                 count |-> event.count + 1]
    /\ UNCHANGED <<calcAll, listVars, gallery, galleryEvent, theme, themeEvent>>

\* App.init() on a page that has the element carousel-container
carouselInit ==
    /\ ~carousel.container
    /\ \E slides \in Slides, indicatorsContainer \in BOOLEAN :
          CarouselBecomes("init", 0, CarouselLoaded(carousel, slides, indicatorsContainer))
    /\ UNCHANGED hovering

prevClick ==
    /\ carousel.container
    /\ CarouselBecomes("prevClick", 0, GoToSlide(carousel, carousel.currentIndex - 1))
    /\ UNCHANGED hovering

nextClick ==
    /\ carousel.container
    /\ CarouselBecomes("nextClick", 0, GoToSlide(carousel, carousel.currentIndex + 1))
    /\ UNCHANGED hovering

indicatorClick ==
    /\ carousel.container
    /\ \E index \in 0..(Len(carousel.indicators) - 1) :
          CarouselBecomes("indicatorClick", index, GoToSlide(carousel, index))
    /\ UNCHANGED hovering

mouseenter ==
    /\ carousel.container
    /\ ~hovering
    /\ CarouselBecomes("mouseenter", 0, PauseAutoPlay(carousel))
    /\ hovering' = TRUE

mouseleave ==
    /\ carousel.container
    /\ hovering
    /\ CarouselBecomes("mouseleave", 0, StartAutoPlay(carousel))
    /\ hovering' = FALSE

carouselKeydown ==
    /\ carousel.container
    /\ \E key \in {"ArrowLeft", "ArrowRight", " "} :
          CarouselBecomes("keydown", key, CarouselKeyDown(carousel, key))
    /\ UNCHANGED hovering

\* the callback of an interval that is not cleared: nextSlide()
autoplay ==
    /\ carousel.timers # {}
    /\ CarouselBecomes("autoplay", 0, ShowSlide(carousel, carousel.currentIndex + 1))
    /\ UNCHANGED hovering

addImage ==
    /\ carousel.container
    /\ Len(carousel.items) <= MaxSlides
    /\ CarouselBecomes("addImage", 0, AddImage(carousel))
    /\ UNCHANGED hovering

CarouselNext ==
    \/ carouselInit
    \/ prevClick
    \/ nextClick
    \/ indicatorClick
    \/ mouseenter
    \/ mouseleave
    \/ carouselKeydown
    \/ autoplay
    \/ addImage

\* the carousel of a page, from before App.init()
CarouselSpec == CalcInit /\ [][CarouselNext]_vars

\* ====================================================================
\* InteractiveGallery (module 5)
\* ====================================================================
\* gallery holds the fields of the object and what it keeps in the page: an
\* item is a number, images are the items of the field images, hidden says
\* whether the lightbox has the class hidden, shown is the item whose image
\* the lightbox shows (0 for none), listeners counts the items that init()
\* gave a click listener, added are the items that addImage() has appended
\* to the container.  The lightbox covers the page while it is
\* open: items are clicked while it is hidden, and its buttons and keys
\* work while it is not.

\* updateLightbox()
UpdateLightbox(g) == [g EXCEPT !.shown = g.images[g.currentIndex + 1]]

\* openLightbox(index)
OpenLightbox(g, index) ==
    [UpdateLightbox([g EXCEPT !.currentIndex = index]) EXCEPT !.hidden = FALSE]

\* prevImage()
PrevImage(g) ==
    UpdateLightbox([g EXCEPT
        !.currentIndex = (g.currentIndex - 1 + Len(g.images)) % Len(g.images)])

\* nextImage()
NextImage(g) ==
    UpdateLightbox([g EXCEPT !.currentIndex = (g.currentIndex + 1) % Len(g.images)])

\* the click listener of an item that addImage() made
AddedClick(g, item) == OpenLightbox([g EXCEPT !.images = Append(@, item)], Len(g.images))

\* init() on a page whose container has n items: the items 1 to n
GalleryLoaded(g, n) ==
    [g EXCEPT !.container = TRUE, !.images = [k \in 1..n |-> k], !.listeners = n]

\* addImage(imageUrl, caption): a new item in the container
GalleryAddImage(g) ==
    [g EXCEPT !.added = Append(@, g.listeners + Len(g.added) + 1)]

\* ------------------------------------------------- the events, as actions
GalleryBecomes(name, arg, after) ==
    /\ galleryEvent.count < MaxEvents
    /\ gallery' = after
    /\ galleryEvent' = [name |-> name, arg |-> arg, pre |-> gallery,
                        count |-> galleryEvent.count + 1]
    /\ UNCHANGED <<calcAll, listVars, carousel, hovering, event, theme, themeEvent>>

\* App.init() on a page that has the element gallery-container
galleryInit ==
    /\ ~gallery.container
    /\ \E n \in 0..MaxPictures : GalleryBecomes("init", n, GalleryLoaded(gallery, n))

\* a click on an item that the page had when init() ran
itemClick ==
    /\ gallery.container
    /\ gallery.hidden
    /\ \E index \in 0..(gallery.listeners - 1) :
          GalleryBecomes("itemClick", index, OpenLightbox(gallery, index))

\* a click on an item that addImage() made
addedClick ==
    /\ gallery.hidden
    /\ \E k \in 1..Len(gallery.added) :
          GalleryBecomes("addedClick", gallery.added[k], AddedClick(gallery, gallery.added[k]))

galleryAddImage ==
    /\ gallery.container
    /\ Len(gallery.added) < MaxPictures
    /\ GalleryBecomes("addImage", 0, GalleryAddImage(gallery))

\* a click on the close button, or the key Escape
closeLightbox ==
    /\ ~gallery.hidden
    /\ GalleryBecomes("closeLightbox", 0, [gallery EXCEPT !.hidden = TRUE])

\* a click on the button of the previous image, or the key ArrowLeft
prevImage ==
    /\ ~gallery.hidden
    /\ GalleryBecomes("prevImage", 0, PrevImage(gallery))

\* a click on the button of the next image, or the key ArrowRight
nextImage ==
    /\ ~gallery.hidden
    /\ GalleryBecomes("nextImage", 0, NextImage(gallery))

GalleryNext ==
    \/ galleryInit
    \/ itemClick
    \/ addedClick
    \/ galleryAddImage
    \/ closeLightbox
    \/ prevImage
    \/ nextImage

\* the gallery of a page, from before App.init()
GallerySpec == CalcInit /\ [][GalleryNext]_vars

\* ====================================================================
\* SistemaTema and ThemeManager (module 6): the two theme controllers
\* ====================================================================
\* theme holds what the two controllers share and their own flags: sistema
\* is isDarkMode of the SistemaTema object, manager is isDarkMode of
\* ThemeManager, html and body say whether the element has the class dark,
\* stored is localStorage's value under 'theme' (Null when there is none),
\* prefersDark is what the media query (prefers-color-scheme: dark)
\* matches, status says whether #theme-status was last written for the
\* dark mode, loaded that DOMContentLoaded has been handled.

\* the classes of html and body
Dark(t, dark) == [t EXCEPT !.html = dark, !.body = dark]

\* SistemaTema.actualizarUI()
ActualizarUI(t) == [t EXCEPT !.status = t.sistema]

\* SistemaTema.cargarPreferencia()
CargarPreferencia(t) ==
    IF t.stored = "dark" \/ (t.stored = Null /\ t.prefersDark)
    THEN [Dark(t, TRUE) EXCEPT !.sistema = TRUE]
    ELSE [Dark(t, FALSE) EXCEPT !.sistema = FALSE]

\* SistemaTema.cambiarAModoClaro()
CambiarAModoClaro(t) ==
    ActualizarUI([Dark(t, FALSE) EXCEPT !.stored = "light", !.sistema = FALSE])

\* SistemaTema.cambiarAModoOscuro()
CambiarAModoOscuro(t) ==
    ActualizarUI([Dark(t, TRUE) EXCEPT !.stored = "dark", !.sistema = TRUE])

\* alternarTema(), had it left the class of body alone
AlternarTemaHtmlOnly(t) ==
    IF t.sistema
    THEN ActualizarUI([t EXCEPT !.html = FALSE, !.stored = "light", !.sistema = FALSE])
    ELSE ActualizarUI([t EXCEPT !.html = TRUE, !.stored = "dark", !.sistema = TRUE])

\* SistemaTema.alternarTema()
AlternarTema(t) == IF t.sistema THEN CambiarAModoClaro(t) ELSE CambiarAModoOscuro(t)

\* SistemaTema.usarPreferenciaSistema()
UsarPreferenciaSistema(t) ==
    IF t.prefersDark
    THEN CambiarAModoOscuro([t EXCEPT !.stored = Null])
    ELSE CambiarAModoClaro([t EXCEPT !.stored = Null])

\* the change listener of SistemaTema, with e.matches
SistemaChange(t, matches) ==
    IF t.stored = Null
    THEN ActualizarUI([Dark(t, matches) EXCEPT !.sistema = matches])
    ELSE t

\* ThemeManager.updateThemeUI()
UpdateThemeUI(t) == [t EXCEPT !.status = t.manager]

\* ThemeManager.enableDarkMode()
EnableDarkMode(t) == [Dark(t, TRUE) EXCEPT !.manager = TRUE, !.stored = "dark"]

\* ThemeManager.enableLightMode()
EnableLightMode(t) == [Dark(t, FALSE) EXCEPT !.manager = FALSE, !.stored = "light"]

\* ThemeManager.toggleTheme()
ToggleTheme(t) ==
    UpdateThemeUI(IF t.manager THEN EnableLightMode(t) ELSE EnableDarkMode(t))

\* ThemeManager.init()
ManagerInit(t) ==
    UpdateThemeUI(IF t.stored = "dark" \/ (t.stored = Null /\ t.prefersDark)
                  THEN EnableDarkMode(t)
                  ELSE EnableLightMode(t))

\* the change listener of ThemeManager, with e.matches
ManagerChange(t, matches) ==
    IF t.stored = Null
    THEN UpdateThemeUI(IF matches THEN EnableDarkMode(t) ELSE EnableLightMode(t))
    ELSE t

\* What a click can land on: an element with one of the ids the listeners
\* look for (or another id), with the attribute data-theme-toggle or not.
Controls ==
    {control \in [id : {"theme-toggle", "theme-toggle-mobile", "theme-switch-main", "other"},
                  toggle : BOOLEAN] :
        control.id # "other" \/ control.toggle}

\* the ids that both controllers look up
ToggleIds == {"theme-toggle", "theme-toggle-mobile"}

\* A click on a control runs the listeners on the element in the order they
\* were added (SistemaTema's on #theme-switch-main, then ThemeManager's for
\* the attribute and for the id) and then SistemaTema's listener on
\* document with its two conditions.
ClickOnButton(t, control) ==
    LET main == IF control.id = "theme-switch-main" THEN AlternarTema(t) ELSE t
        attribute == IF control.toggle THEN ToggleTheme(main) ELSE main
    IN  IF control.id \in ToggleIds THEN ToggleTheme(attribute) ELSE attribute

Click(t, control) ==
    LET button == ClickOnButton(t, control)
        attribute == IF control.toggle THEN AlternarTema(button) ELSE button
    IN  IF control.id \in ToggleIds THEN AlternarTema(attribute) ELSE attribute

\* the two DOMContentLoaded listeners: new SistemaTema(), then App.init()
\* with ThemeManager.init()
ThemeLoaded(t) ==
    [ManagerInit(ActualizarUI(CargarPreferencia([t EXCEPT !.sistema = FALSE])))
       EXCEPT !.loaded = TRUE]

\* ------------------------------------------------- the events, as actions
ThemeBecomes(name, arg, after) ==
    /\ themeEvent.count < MaxEvents
    /\ theme' = after
    /\ themeEvent' = [name |-> name, arg |-> arg, pre |-> theme,
                      before |-> themeEvent.name, prior |-> themeEvent.pre,
                      clicks |-> themeEvent.clicks + (IF name = "click" THEN 1 ELSE 0),
                      count |-> themeEvent.count + 1]
    /\ UNCHANGED <<calcAll, listVars, carousel, hovering, event, gallery, galleryEvent>>

DOMContentLoaded ==
    /\ ~theme.loaded
    /\ ThemeBecomes("DOMContentLoaded", NoControl, ThemeLoaded(theme))

themeClick ==
    /\ theme.loaded
    /\ \E control \in Controls : ThemeBecomes("click", control, Click(theme, control))

alternarTema ==
    /\ theme.loaded
    /\ ThemeBecomes("alternarTema", NoControl, AlternarTema(theme))

cambiarAModoClaro ==
    /\ theme.loaded
    /\ ThemeBecomes("cambiarAModoClaro", NoControl, CambiarAModoClaro(theme))

cambiarAModoOscuro ==
    /\ theme.loaded
    /\ ThemeBecomes("cambiarAModoOscuro", NoControl, CambiarAModoOscuro(theme))

usarPreferenciaSistema ==
    /\ theme.loaded
    /\ ThemeBecomes("usarPreferenciaSistema", NoControl, UsarPreferenciaSistema(theme))

\* the system's colour scheme changes: the media query matches the other
\* way and both change listeners run, SistemaTema's first
change ==
    /\ theme.loaded
    /\ ThemeBecomes("change", NoControl,
                    ManagerChange(SistemaChange([theme EXCEPT !.prefersDark = ~@],
                                                ~theme.prefersDark),
                                  ~theme.prefersDark))

ThemeNext ==
    \/ DOMContentLoaded
    \/ themeClick
    \/ alternarTema
    \/ cambiarAModoClaro
    \/ cambiarAModoOscuro
    \/ usarPreferenciaSistema
    \/ change

\* A page before DOMContentLoaded: the theme the browser has stored, the
\* system's colour scheme and the classes the document was written with.
ThemeInit ==
    /\ Literal
    /\ keys = <<>>
    /\ ListIdle
    /\ CarouselIdle
    /\ GalleryIdle
    /\ \E stored \in {Null, "dark", "light"}, prefersDark \in BOOLEAN, dark \in BOOLEAN :
          theme = [ThemeLiteral EXCEPT !.stored = stored, !.prefersDark = prefersDark,
                                        !.html = dark, !.body = dark]
    /\ themeEvent = [name |-> "none", arg |-> NoControl, pre |-> ThemeLiteral,
                     before |-> "none", prior |-> ThemeLiteral,
                     clicks |-> 0, count |-> 0]

ThemeSpec == ThemeInit /\ [][ThemeNext]_vars

\* ------------------------------------------------------------ properties
\* The operation run last found the fields as Pre.
Pre == last.pre

Ran(name) == last.op = name

\* the text t parses as a number
Numeric(t) == ~isNaN(parseFloat(t))

\* the number of decimal points in the text t
Points(t) == Cardinality({i \in 1..Len(t) : t[i] = Point})

\* what compute() leaves after a division by zero
SentinelFields == Fields(DivError, <<>>, Null, TRUE)

\* compute() on c would divide by zero
DivByZero(c) == c.operation = "/" /\ IsZero(parseFloat(c.currentOperand))

\* compute() on c runs to its end: both operands parse, an operation is staged
Completes(c) ==
    /\ c.operation # Null
    /\ Numeric(c.previousOperand)
    /\ Numeric(c.currentOperand)

\* x = y as exact values
RatEq(x, y) ==
    /\ NatMul(x.n, y.d) = NatMul(y.n, x.d)
    /\ x.n = <<>> \/ x.neg = y.neg

\* |x - y| <= 1 / (2 * 10^f)
Within(x, y, f) ==
    LET diff == RatOp("-", x, y)
    IN NatCmp(NatMul(NatAdd(diff.n, diff.n), TenTo(f)), diff.d) <= 0

\* the text of the exact value r: r rounded to FixedDigits fractional digits
\* and written without trailing zeros
NumberText(r) == NumToString(parseFloat(RatToFixed(r, FixedDigits)))

\* the digits the text t has after its point
FractionDigits(t) ==
    IF includes(t, Point) THEN Len(t) - (CHOOSE i \in 1..Len(t) : t[i] = Point) ELSE 0

\* C1, as stated: currentOperand never holds more than one decimal point,
\* and appendNumber(".") on an operand that already holds a point changes
\* no field.
C1_Original ==
    /\ Points(currentOperand) <= 1
    /\ (Ran("appendNumber") /\ last.arg = Point
          /\ includes(Pre.currentOperand, Point)) => Now = Pre

\* C1, amended: currentOperand never holds more than one decimal point;
\* appendNumber(".") on an operand that already holds a point changes no
\* field while shouldResetScreen is false, and while it is true it starts
\* the fresh operand "." and clears the flag.
C1_OnePoint ==
    /\ Points(currentOperand) <= 1
    /\ (Ran("appendNumber") /\ last.arg = Point
          /\ includes(Pre.currentOperand, Point)) =>
            IF Pre.shouldResetScreen
            THEN Now = [Pre EXCEPT !.currentOperand = <<Point>>,
                                   !.shouldResetScreen = FALSE]
            ELSE Now = Pre

\* a second point was typed into an operand under entry, and was ignored
C1_Witness ==
    /\ Ran("appendNumber") /\ last.arg = Point
    /\ includes(Pre.currentOperand, Point)
    /\ ~Pre.shouldResetScreen
    /\ Now = Pre

\* The operands and operators of the chained calculation entered so far.
ChainA == parseFloat(entered[1].operand)
ChainB == parseFloat(entered[2].operand)
ChainC == parseFloat(entered[3].operand)
ChainOp1 == entered[1].key
ChainOp2 == entered[2].key

\* a op1 b is entered, with numbers and without a division by zero
FirstValid ==
    /\ Len(entered) >= 2
    /\ ~isNaN(ChainA) /\ ~isNaN(ChainB)
    /\ ~(ChainOp1 = "/" /\ IsZero(ChainB))

\* a op1 b op2 c = is entered, with numbers and without a division by zero
ChainValid ==
    /\ FirstValid
    /\ Len(entered) = 3
    /\ ~isNaN(ChainC)
    /\ ~(ChainOp2 = "/" /\ IsZero(ChainC))

\* C2, as stated: after a op1 b op2 c = currentOperand is the text of the
\* value (a op1 b) op2 c, and once op2 is chosen previousOperand is the text
\* of the value a op1 b and operation is op2.
C2_Original ==
    /\ (FirstValid /\ Len(entered) = 2) =>
          /\ previousOperand = NumberText(RatOp(ChainOp1, RatOf(ChainA), RatOf(ChainB)))
          /\ operation = ChainOp2
    /\ ChainValid =>
          currentOperand =
              NumberText(RatOp(ChainOp2,
                               RatOp(ChainOp1, RatOf(ChainA), RatOf(ChainB)),
                               RatOf(ChainC)))

\* C2, amended: once op2 is chosen previousOperand is the text r that
\* compute() stores for a op1 b (rounded to 10 fractional digits) and
\* operation is op2; after a op1 b op2 c = currentOperand is the text that
\* compute() stores for r op2 c, left to right, with no precedence.
C2_Chain ==
    /\ (FirstValid /\ Len(entered) = 2) =>
          /\ previousOperand = ResultText(ChainOp1, ChainA, ChainB)
          /\ operation = ChainOp2
    /\ ChainValid =>
          currentOperand =
              ResultText(ChainOp2,
                         parseFloat(ResultText(ChainOp1, ChainA, ChainB)),
                         ChainC)

\* 1 + 2 * 3 = was entered and shows 9
C2_Witness ==
    /\ keys = <<>>
    /\ Len(entered) = 3
    /\ entered[1] = [operand |-> <<"1">>, key |-> "+"]
    /\ entered[2] = [operand |-> <<"2">>, key |-> "*"]
    /\ entered[3] = [operand |-> <<"3">>, key |-> "="]
    /\ currentOperand = <<"9">>

\* C3, as stated: compute() with "/" staged and a currentOperand that
\* parses to zero leaves the sentinel in currentOperand, no operation, an
\* empty previousOperand and shouldResetScreen set; appendNumber(d) for a
\* digit d right after it leaves currentOperand = d.
C3_Original ==
    /\ (Ran("compute") /\ DivByZero(Pre)) => Now = SentinelFields
    /\ (Ran("appendNumber") /\ last.arg \in Digits /\ Pre = SentinelFields) =>
          currentOperand = <<last.arg>>

\* C3, amended: the same, for a previousOperand that parses as a number.
C3_DivisionByZero ==
    /\ (Ran("compute") /\ DivByZero(Pre) /\ Numeric(Pre.previousOperand)) =>
          Now = SentinelFields
    /\ (Ran("appendNumber") /\ last.arg \in Digits /\ Pre = SentinelFields) =>
          currentOperand = <<last.arg>>

\* a digit was typed right after a division by zero and stands alone
C3_Witness ==
    /\ Ran("appendNumber") /\ last.arg \in Digits
    /\ Pre = SentinelFields
    /\ currentOperand = <<last.arg>>

\* C4, as stated: compute() with both operands parsing and an operation
\* staged leaves in currentOperand the text of the value of
\* previousOperand op currentOperand, no operation, an empty
\* previousOperand and shouldResetScreen set.
C4_Original ==
    (Ran("compute") /\ Completes(Pre)) =>
        /\ Numeric(currentOperand)
        /\ RatEq(RatOf(parseFloat(currentOperand)),
                 RatOp(Pre.operation, RatOf(parseFloat(Pre.previousOperand)),
                       RatOf(parseFloat(Pre.currentOperand))))
        /\ operation = Null
        /\ previousOperand = <<>>
        /\ shouldResetScreen

\* C4, amended: compute() with both operands parsing and an operation
\* staged leaves no operation, an empty previousOperand and
\* shouldResetScreen set; currentOperand is the sentinel for a division by
\* zero, and otherwise the shortest text of a number with at most 10
\* fractional digits that lies within half a unit of the tenth fractional
\* digit of previousOperand op currentOperand.
C4_ComputePost ==
    (Ran("compute") /\ Completes(Pre)) =>
        /\ operation = Null
        /\ previousOperand = <<>>
        /\ shouldResetScreen
        /\ IF DivByZero(Pre) THEN currentOperand = DivError
           ELSE /\ Numeric(currentOperand)
                /\ currentOperand = NumToString(parseFloat(currentOperand))
                /\ FractionDigits(currentOperand) <= FixedDigits
                /\ Within(RatOf(parseFloat(currentOperand)),
                          RatOp(Pre.operation,
                                RatOf(parseFloat(Pre.previousOperand)),
                                RatOf(parseFloat(Pre.currentOperand))),
                          FixedDigits)

\* compute() ran on 2 + 3 and left 5
C4_Witness ==
    /\ Ran("compute")
    /\ Pre = Fields(<<"3">>, <<"2">>, "+", FALSE)
    /\ Now = Fields(<<"5">>, <<>>, Null, TRUE)

\* C5: compute() changes no field when previousOperand or currentOperand
\* does not parse as a number or when no operation is staged.
C5_ComputeNoOp ==
    (Ran("compute")
       /\ (~Numeric(Pre.previousOperand) \/ ~Numeric(Pre.currentOperand)
             \/ Pre.operation = Null)) => Now = Pre

\* compute() ran with an operation staged and "." as currentOperand
C5_Witness ==
    /\ Ran("compute")
    /\ Pre.operation # Null
    /\ Numeric(Pre.previousOperand)
    /\ Pre.currentOperand = <<Point>>
    /\ Now = Pre

\* the text t does not start with "0" directly followed by a digit
NoLeadingZero(t) == ~(Len(t) >= 2 /\ t[1] = "0" /\ IsDigitChar(t[2]))

\* C6, as stated: appendNumber with no operation staged replaces a
\* currentOperand that is exactly "0" by a digit and appends the digit
\* otherwise, and appends "." to "0"; currentOperand never starts with "0"
\* directly followed by a digit.
C6_Original ==
    /\ (Ran("appendNumber") /\ Pre.operation = Null) =>
          /\ last.arg \in Digits =>
                currentOperand = IF Pre.currentOperand = <<"0">> THEN <<last.arg>>
                                 ELSE Append(Pre.currentOperand, last.arg)
          /\ (last.arg = Point /\ Pre.currentOperand = <<"0">>) =>
                currentOperand = <<"0", Point>>
    /\ NoLeadingZero(currentOperand)

\* C6, amended: the same while shouldResetScreen is false; while it is true
\* the key starts a fresh operand that holds the key alone.
C6_Concatenation ==
    /\ (Ran("appendNumber") /\ Pre.operation = Null /\ ~Pre.shouldResetScreen) =>
          /\ last.arg \in Digits =>
                currentOperand = IF Pre.currentOperand = <<"0">> THEN <<last.arg>>
                                 ELSE Append(Pre.currentOperand, last.arg)
          /\ (last.arg = Point /\ Pre.currentOperand = <<"0">>) =>
                currentOperand = <<"0", Point>>
    /\ (Ran("appendNumber") /\ Pre.operation = Null /\ Pre.shouldResetScreen) =>
          currentOperand = <<last.arg>>
    /\ NoLeadingZero(currentOperand)

\* a digit was typed over the initial "0" and replaced it
C6_Witness ==
    /\ Ran("appendNumber")
    /\ Pre = Fields(<<"0">>, <<>>, Null, FALSE)
    /\ last.arg = "3"
    /\ currentOperand = <<"3">>

\* the operation run last ran compute() to its end, itself or on the way
ComputeCompleted ==
    \/ Ran("compute") /\ Completes(Pre)
    \/ /\ Ran("chooseOperation")
       /\ Pre.currentOperand # <<>> /\ Pre.previousOperand # <<>>
       /\ Completes(Pre)

\* C7: shouldResetScreen is true exactly when a compute() has run to its end
\* and appendNumber has not run since: a compute() that runs to its end
\* sets it, appendNumber clears it, nothing else changes it, and the first
\* appendNumber after such a compute() leaves the key alone in
\* currentOperand.
C7_AwaitingReset ==
    /\ ComputeCompleted => shouldResetScreen
    /\ Ran("appendNumber") => ~shouldResetScreen
    /\ (~ComputeCompleted /\ ~Ran("appendNumber")) =>
          shouldResetScreen = Pre.shouldResetScreen
    /\ (Ran("appendNumber") /\ Pre.shouldResetScreen) =>
          currentOperand = <<last.arg>>

\* a key was typed over a result and replaced it
C7_Witness ==
    /\ Ran("appendNumber")
    /\ Pre.shouldResetScreen
    /\ Len(Pre.currentOperand) >= 1 /\ Pre.currentOperand # <<"0">>
    /\ currentOperand = <<last.arg>>
    /\ ~shouldResetScreen

\* C8: chooseOperation(op) changes no field while currentOperand is empty,
\* so a second operator right after a first leaves the first staged.
C8_EmptyOperand ==
    (Ran("chooseOperation") /\ Pre.currentOperand = <<>>) => Now = Pre

\* a different operator was chosen right after one, and the first stayed
C8_Witness ==
    /\ Ran("chooseOperation")
    /\ Pre.currentOperand = <<>>
    /\ Pre.operation # Null /\ last.arg # Pre.operation
    /\ operation = Pre.operation

\* C9: chooseOperation(op) with a currentOperand that is not empty leaves
\* operation = op, currentOperand empty, and in previousOperand what
\* currentOperand held just before staging: the result of compute() where
\* a previousOperand was there to fold, the operand itself otherwise.
C9_Staged ==
    (Ran("chooseOperation") /\ Pre.currentOperand # <<>>) =>
        /\ operation = last.arg
        /\ currentOperand = <<>>
        /\ previousOperand = IF Pre.previousOperand # <<>>
                             THEN Compute(Pre).currentOperand
                             ELSE Pre.currentOperand

\* an operator was chosen on 1 + 2 and staged with 3 as previousOperand
C9_Witness ==
    /\ Ran("chooseOperation")
    /\ Pre = Fields(<<"2">>, <<"1">>, "+", FALSE)
    /\ previousOperand = <<"3">>
    /\ operation = last.arg
    /\ currentOperand = <<>>

\* C10: clear() leaves currentOperand "0", previousOperand empty and no
\* operation, and shouldResetScreen as it was.
C10_Clear ==
    Ran("clear") => Now = Fields(<<"0">>, <<>>, Null, Pre.shouldResetScreen)

\* clear() ran with an operation staged and shouldResetScreen set
C10_Witness ==
    /\ Ran("clear")
    /\ Pre.shouldResetScreen
    /\ Pre.operation # Null /\ Pre.previousOperand # <<>>
    /\ Now = Fields(<<"0">>, <<>>, Null, TRUE)

\* C11: delete() leaves "0" in currentOperand when it held one character
\* or the error text, and currentOperand without its last character
\* otherwise; previousOperand, operation and shouldResetScreen stay.
C11_Delete ==
    Ran("delete") =>
        /\ currentOperand =
              IF Len(Pre.currentOperand) = 1 \/ Pre.currentOperand = DivError
              THEN <<"0">>
              ELSE SubSeq(Pre.currentOperand, 1, Len(Pre.currentOperand) - 1)
        /\ Len(Pre.currentOperand) >= 2 /\ Pre.currentOperand # DivError =>
              Len(currentOperand) = Len(Pre.currentOperand) - 1
        /\ previousOperand = Pre.previousOperand
        /\ operation = Pre.operation
        /\ shouldResetScreen = Pre.shouldResetScreen

\* delete() ran on the error text and left "0"
C11_Witness ==
    /\ Ran("delete")
    /\ Pre.currentOperand = DivError
    /\ currentOperand = <<"0">>
    /\ shouldResetScreen


\* ------------------------------------------------------- DynamicList claims
\* the method of DynamicList called last, and the list before the call
Called(name) == call.name = name

Before == call.pre

\* a list of items: an array of objects
IsItemList(v) ==
    v.type = "array" /\ \A i \in 1..Len(v.elements) : v.elements[i].type = "object"

\* a stored text that is no serialization of a list of items
NotAList(r) == ~r.ok \/ ~IsItemList(r.value)

Malformed(sto) == sto.type = "string" /\ NotAList(parse(sto.text))

\* C12: init() on a page whose stored text is no serialization of a list
\* leaves the empty list in items and throws nothing.
C12_Original ==
    Called("init") /\ Malformed(Before.storage) =>
        items = JSArray(<<>>) /\ fault = NoFault

\* init() has thrown the SyntaxError of JSON.parse
C12_Witness ==
    Called("init") /\ Before.storage = JSString(<<"{">>) /\ fault = "SyntaxError"

\* the ids of the items of the array v
Ids(v) == [i \in 1..Len(v.elements) |-> Get(v.elements[i], IdKey)]

\* C13: from an empty store, whatever addItem, removeItem and clearAll are
\* called and however the clock advances, no two items have the same id.
C13_Original ==
    items.type = "array" =>
        \A i \in 1..Len(items.elements), j \in 1..Len(items.elements) :
            i # j => Ids(items)[i] # Ids(items)[j]

\* two items were added in the same millisecond
C13_Witness ==
    /\ Called("addItem")
    /\ fault = NoFault
    /\ Len(items.elements) = 2
    /\ Ids(items)[1] = Ids(items)[2]

Without(e, k) == SubSeq(e, 1, k - 1) \o SubSeq(e, k + 1, Len(e))

\* the places of the array v whose item has the id
Places(v, id) == {i \in 1..Len(v.elements) : StrictEquals(Ids(v)[i], id)}

\* C15: a removeItem(id) that returns has removed exactly one item when an
\* item of that id was there, so that the list is one shorter and the
\* others are in their order, and has left the list as it was when none was.
C15_Original ==
    Called("removeItem") /\ fault = NoFault =>
        IF Places(Before.items, call.arg) = {} THEN items = Before.items
        ELSE /\ Len(items.elements) = Len(Before.items.elements) - 1
             /\ \E k \in Places(Before.items, call.arg) :
                   items.elements = Without(Before.items.elements, k)

\* removeItem has removed two items of one id
C15_Witness ==
    /\ Called("removeItem")
    /\ fault = NoFault
    /\ Len(Before.items.elements) = 2
    /\ Places(Before.items, call.arg) = {1, 2}
    /\ items = JSArray(<<>>)

\* C16: after init() with a stored text that is read, items is what the
\* text stands for; after an addItem, removeItem or clearAll that returns,
\* the stored text is the text of items, which after clearAll is the empty
\* list.
C16_Mirror ==
    /\ Called("init") /\ Truthy(Before.storage) /\ parse(Before.storage.text).ok =>
          items = parse(Before.storage.text).value
    /\ call.name \in {"addItem", "removeItem", "clearAll"} /\ fault = NoFault =>
          storage = JSString(stringify(items))
    /\ Called("clearAll") /\ fault = NoFault =>
          items = JSArray(<<>>) /\ storage = JSString(<<"[", "]">>)

\* an item was added to a list read from the stored text
C16_Witness ==
    /\ Called("addItem")
    /\ fault = NoFault
    /\ Len(items.elements) = 2
    /\ items.elements[2] = StoredItem(<<"a">>)
    /\ storage = JSString(stringify(items))

\* C17: the text of a list of items read back is that list, with the
\* same ids, fields and order; so a page that loads with the text a list
\* was stored as has that list.
C17_RoundTrip ==
    /\ IsItemList(items) =>
          parse(stringify(items)) = Found(items, Len(stringify(items)) + 1)
    /\ Called("init") /\ IsItemList(Before.items)
         /\ Before.storage = JSString(stringify(Before.items)) =>
          items = Before.items

\* the page was loaded again with a stored item whose title has a quote and
\* a backslash
C17_Witness ==
    /\ Called("init")
    /\ Before.container
    /\ fault = NoFault
    /\ items = Before.items
    /\ Len(items.elements) = 1
    /\ Get(items.elements[1], TitleKey) = JSString(<<Quote, Backslash>>)

\* what a card shows: all of it but its colour
Descriptor(card) ==
    [title |-> card.title, date |-> card.date, description |-> card.description,
     value |-> card.value, id |-> card.id, removes |-> card.removes]

Descriptors(cards) == [i \in 1..Len(cards) |-> Descriptor(cards[i])]

\* what the card of an item is to show
Shows(card, item) ==
    /\ card.title = IF Truthy(Get(item, TitleKey)) THEN TextOf(Get(item, TitleKey))
                    ELSE NoTitle
    /\ card.description =
          IF Truthy(Get(item, DescriptionKey)) THEN TextOf(Get(item, DescriptionKey))
          ELSE NoDescription
    /\ card.value = IF Truthy(Get(item, ValueKey)) THEN <<TextOf(Get(item, ValueKey))>>
                    ELSE <<>>
    /\ card.date = toLocaleDateString(Get(item, CreatedAtKey))
    /\ card.removes = Get(item, IdKey)

\* C18: render() changes neither items nor the stored text; called on a
\* list of items it leaves one card for each item, in order, that shows the
\* title or its placeholder, the date, the description or its placeholder,
\* the value if there is one and a button that removes the item's id; called
\* when the cards are those of an earlier render() it leaves cards that show
\* the same.
C18_Render ==
    Called("render") =>
        /\ items = Before.items
        /\ storage = Before.storage
        /\ IsItemList(items) =>
              /\ fault = NoFault
              /\ Len(children) = Len(items.elements)
              /\ \A i \in 1..Len(children) : Shows(children[i], items.elements[i])
        /\ Before.fault = NoFault /\ fault = NoFault =>
              Descriptors(children) = Descriptors(Before.children)

\* render() has drawn the two cards again, one in another colour
C18_Witness ==
    /\ Called("render")
    /\ fault = NoFault
    /\ Before.fault = NoFault
    /\ Len(children) = 2
    /\ Len(Before.children) = 2
    /\ children[1].color # Before.children[1].color

\* C20: when localStorage.setItem throws in addItem, removeItem or
\* clearAll, the exception leaves the method, which has called setItem once
\* and returns nothing; the stored text is as it was.
C20_SetFails ==
    call.name \in {"addItem", "removeItem", "clearAll"} /\ call.fails /\ sets > 0 =>
        /\ fault = "QuotaExceededError"
        /\ sets = 1
        /\ returned = JSUndefined
        /\ storage = Before.storage

\* setItem has thrown in addItem
C20_Witness ==
    /\ Called("addItem")
    /\ call.fails
    /\ sets = 1
    /\ fault = "QuotaExceededError"
    /\ Before.storage = storage

\* -------------------------------------------------------- Calculator claims
\* a string: a sequence of characters
IsText(s) == s \in Seq(STRING)

\* parseFloat gives NaN for the text
Unparsable(s) == isNaN(parseFloat(s))

\* C19: no method of the calculator throws: the fields keep the types the
\* methods call string methods on, and getDisplayNumber gives a text for
\* both operands.  Invalid input is absorbed: a second point, an operator on
\* an empty operand and equals on an operand that parses to no number
\* change nothing; an operator on operands that parse to no number stages
\* the operator without computing; a division by zero shows the error text.
C19_NoFault ==
    /\ IsText(currentOperand)
    /\ IsText(previousOperand)
    /\ operation \in Operations \cup {Null}
    /\ shouldResetScreen \in BOOLEAN
    /\ IsText(Display)
    /\ IsText(PreviousDisplay)
    /\ Ran("appendNumber") /\ last.arg = Point /\ ~Pre.shouldResetScreen
          /\ includes(Pre.currentOperand, Point) => Now = Pre
    /\ Ran("chooseOperation") /\ Pre.currentOperand = <<>> => Now = Pre
    /\ Ran("chooseOperation") /\ Pre.currentOperand # <<>> /\ Pre.previousOperand # <<>>
          /\ (Unparsable(Pre.previousOperand) \/ Unparsable(Pre.currentOperand)) =>
          Now = Fields(<<>>, Pre.currentOperand, last.arg, Pre.shouldResetScreen)
    /\ Ran("compute")
          /\ (Unparsable(Pre.previousOperand) \/ Unparsable(Pre.currentOperand)) =>
          Now = Pre
    /\ Ran("compute") /\ Pre.operation = "/" /\ ~Unparsable(Pre.previousOperand)
          /\ ~Unparsable(Pre.currentOperand) /\ IsZero(parseFloat(Pre.currentOperand)) =>
          currentOperand = DivError /\ Display = DivError

\* equals was pressed on an operand that is only a point
C19_Witness ==
    /\ Ran("compute")
    /\ Pre.operation = "+"
    /\ Pre.previousOperand = <<"1">>
    /\ Pre.currentOperand = <<Point>>
    /\ Now = Pre
    /\ Display = <<Point>>

\* ------------------------------------------------------------ the display
\* the text t without its grouping points
Ungrouped(t) == SelectSeq(t, LAMBDA ch : ch # Point)

\* the text s from its first point on, nothing when it has no point
FromPoint(s) ==
    IF FirstPoint(s) = 0 THEN <<>> ELSE SubSeq(s, FirstPoint(s), Len(s))

\* a decimal integer whose digits a Number holds exactly
IsPlainInteger(t) ==
    /\ Len(Ungrouped(t)) = Len(t)
    /\ \E sign \in 0..1 :
          /\ sign = 1 => Len(t) > 1 /\ t[1] = "-"
          /\ Len(t) - sign \in 1..15
          /\ \A i \in (sign + 1)..Len(t) : IsDigitChar(t[i])

\* piece has its points only before groups of three digits, and before
\* every such group when the integer has five digits or more
ThousandsGrouped(piece) ==
    LET digits == Len(SelectSeq(piece, IsDigitChar))
        after(i) == Len(SelectSeq(SubSeq(piece, i, Len(piece)), IsDigitChar))
    IN  /\ \A i \in 1..Len(piece) :
              piece[i] = Point => i > 1 /\ IsDigitChar(piece[i - 1]) /\ after(i) % 3 = 0
                                        /\ after(i) > 0
        /\ digits >= 5 => Len(piece) - Len(Ungrouped(piece)) = (digits - 1) \div 3

\* shown is what the claim gives for the operand
Formatted(operand, shown) ==
    /\ operand = DivError => shown = DivError
    /\ operand = <<>> => shown = <<>>
    /\ operand # DivError =>
          \E g \in 0..Len(shown) :
              /\ SubSeq(shown, g + 1, Len(shown)) = FromPoint(operand)
              /\ IsPlainInteger(UpTo(operand, FirstPoint(operand))) =>
                    /\ Ungrouped(SubSeq(shown, 1, g)) = UpTo(operand, FirstPoint(operand))
                    /\ ThousandsGrouped(SubSeq(shown, 1, g))

ExponentMark(t) ==
    IF \E i \in 1..Len(t) : t[i] = "e" THEN CHOOSE i \in 1..Len(t) : t[i] = "e" ELSE 0

\* the natural number the digits t write
RECURSIVE Natural(_)
Natural(t) ==
    IF t = <<>> THEN 0 ELSE 10 * Natural(SubSeq(t, 1, Len(t) - 1)) + CharDigit(t[Len(t)])

\* the decimals the mantissa of t writes
MantissaDecimals(t, mark) ==
    IF FirstPoint(t) = 0 THEN 0
    ELSE (IF mark = 0 THEN Len(t) ELSE mark - 1) - FirstPoint(t)

\* the digits behind the decimal point of the number the text t writes,
\* in positional or in exponential notation
DecimalPlaces(t) ==
    LET mark == ExponentMark(t)
        scale == IF mark = 0 THEN 0 ELSE Natural(SubSeq(t, mark + 2, Len(t)))
        decimals == MantissaDecimals(t, mark)
    IN IF mark = 0 THEN decimals
       ELSE IF t[mark + 1] = "-" THEN decimals + scale
       ELSE IF decimals > scale THEN decimals - scale
       ELSE 0

\* equals, or an operator with two operands, has just computed a number
JustComputed ==
    /\ \/ Ran("compute")
       \/ Ran("chooseOperation")
       \/ Ran("keydown") /\ last.arg \in {"=", "Enter"} \cup Operations
    /\ Pre.operation # Null
    /\ Numeric(Pre.previousOperand)
    /\ Numeric(Pre.currentOperand)
    /\ ~(Pre.operation = "/" /\ IsZero(parseFloat(Pre.currentOperand)))

\* the text compute() stored: currentOperand after equals, previousOperand
\* after an operator
Result == IF operation = Null THEN currentOperand ELSE previousOperand

\* C22: a number that compute() stores has at most 10 digits behind its
\* decimal point.
C22_TenDecimals == JustComputed => DecimalPlaces(Result) <= FixedDigits

\* 2 / 3 is stored as 0.6666666667
C22_Witness ==
    /\ JustComputed
    /\ Pre.previousOperand = <<"2">>
    /\ Pre.currentOperand = <<"3">>
    /\ Pre.operation = "/"
    /\ currentOperand = <<"0", ".", "6", "6", "6", "6", "6", "6", "6", "6", "6", "7">>

\* ------------------------------------------------- the staged operation
\* C23: in every state of the calculator an operator is staged exactly when
\* previousOperand is not empty.
C23_StagedIffPrevious == (operation # Null) <=> (previousOperand # <<>>)

\* an operator chosen on a staged operation has folded it and staged itself
C23_Witness ==
    /\ Ran("chooseOperation")
    /\ Pre.operation # Null
    /\ Pre.previousOperand # <<>>
    /\ Pre.currentOperand # <<>>
    /\ operation = last.arg
    /\ previousOperand # <<>>

\* C24, as stated: whenever an operator is staged, previousOperand parses as
\* a number.
C24_Original == operation # Null => Numeric(previousOperand)

\* C24, amended: whenever an operator is staged, previousOperand is not
\* empty; chooseOperation moves a currentOperand that does not parse (a
\* point, a minus sign, the error text) into previousOperand like any other,
\* appendNumber and delete leave the staged operation alone, equals completes
\* it when both operands parse and changes nothing when previousOperand does
\* not.
C24_Staged ==
    /\ operation # Null => previousOperand # <<>>
    /\ Ran("chooseOperation") /\ Pre.previousOperand = <<>> /\ Pre.currentOperand # <<>> =>
          previousOperand = Pre.currentOperand /\ operation = last.arg
    /\ Ran("appendNumber") \/ Ran("delete") =>
          previousOperand = Pre.previousOperand /\ operation = Pre.operation
    /\ Ran("compute") /\ Pre.operation # Null /\ Numeric(Pre.previousOperand)
          /\ Numeric(Pre.currentOperand) =>
          operation = Null /\ previousOperand = <<>> /\ currentOperand # <<>>
    /\ Ran("compute") /\ Pre.operation # Null /\ ~Numeric(Pre.previousOperand) =>
          Now = Pre

\* an operator was chosen on the operand "." and staged it
C24_Witness ==
    /\ Ran("chooseOperation")
    /\ Pre.currentOperand = <<Point>>
    /\ Pre.previousOperand = <<>>
    /\ previousOperand = <<Point>>
    /\ operation = last.arg
    /\ ~Numeric(previousOperand)

\* C25: currentOperand is empty only while an operator is staged, and
\* neither delete nor appendNumber makes a currentOperand that is not empty
\* empty.
C25_EmptyOnlyStaged ==
    /\ currentOperand = <<>> => operation # Null
    /\ (Ran("delete") \/ Ran("appendNumber")) /\ Pre.currentOperand # <<>> =>
          currentOperand # <<>>

\* delete on the last character of an operand typed after an operator
C25_Witness ==
    /\ Ran("delete")
    /\ Pre.operation # Null
    /\ Len(Pre.currentOperand) = 1
    /\ currentOperand = <<"0">>
    /\ operation = Pre.operation

\* ------------------------------------------------ the list when a write fails
\* C26: when localStorage.setItem throws in addItem, removeItem or clearAll,
\* items is the list it was before the call.
C26_Original ==
    call.name \in {"addItem", "removeItem", "clearAll"} /\ fault = "QuotaExceededError" =>
        items = Before.items

\* setItem has thrown in addItem: the stored text is the old one, and items
\* has the new item
C26_Witness ==
    /\ Called("addItem")
    /\ fault = "QuotaExceededError"
    /\ storage = Before.storage
    /\ IsItemList(Before.items)
    /\ Len(items.elements) = Len(Before.items.elements) + 1

\* ------------------------------------------------------- ImageCarousel claims
\* the places of the slides that have the class active
ActiveSlides == {k \in 1..Len(carousel.items) : carousel.items[k]}

\* the event handled last called nextSlide(), or prevSlide()
Advanced ==
    \/ event.name \in {"nextClick", "autoplay"}
    \/ event.name = "keydown" /\ event.arg = "ArrowRight"

WentBack ==
    \/ event.name = "prevClick"
    \/ event.name = "keydown" /\ event.arg = "ArrowLeft"

\* C27: once init() has run on a page with at least one slide, currentIndex
\* is the place of a slide and that slide is the only one with the class
\* active, whatever buttons, indicators and keys are used, intervals fire
\* and images are added; nextSlide() on the last slide shows slide 0 and
\* prevSlide() on slide 0 shows the last slide.
C27_OneActive ==
    carousel.container /\ event.slides >= 1 =>
        /\ carousel.currentIndex \in 0..(Len(carousel.items) - 1)
        /\ ActiveSlides = {carousel.currentIndex + 1}
        /\ Advanced /\ event.pre.currentIndex = Len(event.pre.items) - 1 =>
              carousel.currentIndex = 0
        /\ WentBack /\ event.pre.currentIndex = 0 =>
              carousel.currentIndex = Len(carousel.items) - 1

\* an interval fired on the last slide after an image was added
C27_Witness ==
    /\ event.name = "autoplay"
    /\ event.slides = 2
    /\ Len(carousel.items) = 3
    /\ event.pre.currentIndex = 2
    /\ carousel.currentIndex = 0
    /\ ActiveSlides = {1}

\* C28: once init() has run, at most one interval is running, interval
\* holds it, and isPlaying is true exactly when interval is not null.
C28_OneTimer ==
    carousel.container =>
        /\ Cardinality(carousel.timers) <= 1
        /\ carousel.timers = IF carousel.interval = 0 THEN {} ELSE {carousel.interval}
        /\ carousel.isPlaying <=> carousel.interval # 0

\* autoplay was started while an interval was running: the pointer left the
\* container after a click had started one
C28_Witness ==
    /\ event.name = "mouseleave"
    /\ event.pre.interval # 0
    /\ carousel.interval # event.pre.interval
    /\ carousel.timers = {carousel.interval}
    /\ carousel.isPlaying

\* C29: while the pointer is over the container no interval is running: the
\* mouseenter pauses autoplay, and a click on a button or an indicator made
\* while it is paused under the pointer leaves it paused.
C29_Original ==
    /\ event.name = "mouseenter" => carousel.timers = {}
    /\ hovering /\ event.name \in {"prevClick", "nextClick", "indicatorClick"}
          /\ event.pre.timers = {} =>
          carousel.timers = {}

\* the next button was clicked under the pointer, and an interval runs
C29_Witness ==
    /\ hovering
    /\ event.name = "nextClick"
    /\ event.pre.timers = {}
    /\ carousel.timers # {}

\* ---------------------------------------------------- InteractiveGallery claims
\* the items of images
GalleryItems == {gallery.images[k] : k \in 1..Len(gallery.images)}

\* currentIndex after n calls of nextImage()
RECURSIVE AfterNext(_, _)
AfterNext(g, n) == IF n = 0 THEN g.currentIndex ELSE AfterNext(NextImage(g), n - 1)

\* C30: each item occurs once in images at most; so as many calls of
\* nextImage() as there are items lead back to the image shown, and
\* prevImage() after nextImage() does.
C30_Original ==
    gallery.images # <<>> =>
        /\ Cardinality(GalleryItems) = Len(gallery.images)
        /\ AfterNext(gallery, Cardinality(GalleryItems)) = gallery.currentIndex
        /\ PrevImage(NextImage(gallery)).currentIndex = gallery.currentIndex

\* an item that addImage() made was clicked, closed and clicked again
C30_Witness ==
    /\ galleryEvent.name = "addedClick"
    /\ \E k \in 1..Len(galleryEvent.pre.images) :
          galleryEvent.pre.images[k] = galleryEvent.arg
    /\ Cardinality(GalleryItems) < Len(gallery.images)

\* isDarkMode of SistemaTema is true exactly when html and body both have
\* the class dark
Consistent(t) == t.sistema <=> (t.html /\ t.body)

\* the value setItem('theme', ...) stores for isDarkMode
StoredFor(dark) == IF dark THEN "dark" ELSE "light"

\* the events that end in alternarTema(), cambiarAModoClaro() or
\* cambiarAModoOscuro() of SistemaTema
Setters == {"click", "alternarTema", "cambiarAModoClaro", "cambiarAModoOscuro"}

\* C31: once SistemaTema is constructed, whatever the sequence of
\* alternarTema, cambiarAModoClaro, cambiarAModoOscuro and changes of the
\* system's colour scheme, isDarkMode is true exactly when html and body
\* both have the class dark (a change of the colour scheme with nothing
\* stored keeps that too); after alternarTema, cambiarAModoClaro and
\* cambiarAModoOscuro the theme stored is "dark" when isDarkMode and
\* "light" otherwise; a second alternarTema right after a first restores
\* isDarkMode and the classes.
C31_DarkClass ==
    theme.loaded =>
        /\ Consistent(theme)
        /\ \A matches \in BOOLEAN :
              Consistent(SistemaChange([theme EXCEPT !.stored = Null], matches))
        /\ themeEvent.name \in Setters => theme.stored = StoredFor(theme.sistema)
        /\ (themeEvent.name = "alternarTema" /\ themeEvent.before = "alternarTema") =>
              /\ theme.sistema = themeEvent.prior.sistema
              /\ theme.html = themeEvent.prior.html
              /\ theme.body = themeEvent.prior.body

\* alternarTema twice in a row after other events, ending in the dark mode
C31_Witness ==
    /\ themeEvent.name = "alternarTema"
    /\ themeEvent.before = "alternarTema"
    /\ themeEvent.count > 3
    /\ theme.sistema /\ theme.html /\ theme.body
    /\ theme.stored = "dark"
    /\ ~themeEvent.pre.sistema

\* C32: after usarPreferenciaSistema() no theme is stored and isDarkMode is
\* what the system prefers; a change of the system's colour scheme right
\* after it sets isDarkMode to the new preference.
C32_Original ==
    /\ themeEvent.name = "usarPreferenciaSistema" =>
          /\ theme.stored = Null
          /\ theme.sistema = theme.prefersDark
    /\ (themeEvent.name = "change" /\ themeEvent.before = "usarPreferenciaSistema") =>
          theme.sistema = theme.prefersDark

\* the system's colour scheme changed right after usarPreferenciaSistema()
\* and isDarkMode stayed as it was, a theme being stored
C32_Witness ==
    /\ themeEvent.name = "change"
    /\ themeEvent.before = "usarPreferenciaSistema"
    /\ themeEvent.pre.stored # Null
    /\ theme.sistema = themeEvent.pre.sistema
    /\ theme.sistema # theme.prefersDark

\* C33: ThemeManager.init() with no theme stored stores none, and a change
\* of the system's colour scheme right after it sets ThemeManager's
\* isDarkMode to the new preference.
C33_Original ==
    /\ (themeEvent.name = "DOMContentLoaded" /\ themeEvent.pre.stored = Null) =>
          theme.stored = Null
    /\ (/\ themeEvent.name = "change"
        /\ themeEvent.before = "DOMContentLoaded"
        /\ themeEvent.prior.stored = Null) =>
          theme.manager = theme.prefersDark

\* init() ran with nothing stored, the system's colour scheme changed and
\* ThemeManager's isDarkMode stayed as it was
C33_Witness ==
    /\ themeEvent.name = "change"
    /\ themeEvent.before = "DOMContentLoaded"
    /\ themeEvent.prior.stored = Null
    /\ themeEvent.pre.stored # Null
    /\ theme.manager = themeEvent.pre.manager
    /\ theme.manager # theme.prefersDark

\* the page was loaded and only clicks on the theme controls followed
OnlyClicks == theme.loaded /\ themeEvent.clicks = themeEvent.count - 1

\* C34: with both controllers initialised, after any sequence of clicks on
\* the theme controls isDarkMode of SistemaTema equals isDarkMode of
\* ThemeManager, and each click inverts the class dark of the page.
C34_Original ==
    OnlyClicks =>
        /\ theme.sistema = theme.manager
        /\ themeEvent.name = "click" =>
              /\ theme.html # themeEvent.pre.html
              /\ theme.body # themeEvent.pre.body

\* a click on #theme-switch-main, without the attribute, right after the
\* page was loaded: the class is inverted and the two flags differ
C34_Witness ==
    /\ OnlyClicks
    /\ themeEvent.name = "click"
    /\ themeEvent.arg = [id |-> "theme-switch-main", toggle |-> FALSE]
    /\ themeEvent.pre.sistema = themeEvent.pre.manager
    /\ theme.html # themeEvent.pre.html
    /\ theme.sistema # theme.manager
====
